---------------------------- MODULE Spec2Model ----------------------------
(***************************************************************************)
(* Attendance management API (backend/main.py, backend/database.py).       *)
(*                                                                         *)
(* The module holds eight specifications over one set of variables:        *)
(*   Spec         the session lifecycle with requests served one at a time *)
(*                (check_in, check_out, member_attendance, admin_dashboard,*)
(*                get_all_users and the database clock);                   *)
(*   SpecRace     check_out requests served concurrently, one step per SQL *)
(*                statement / commit, with PostgreSQL's row locks;         *)
(*   SpecConc     check_out, check_in and the sweep served concurrently;   *)
(*   SpecNet      the office-network admission filter as a function of the *)
(*                configured allowlist and the request's headers;          *)
(*   SpecAccounts authentication, roles, the profile and the leaves;       *)
(*   SpecGate     every endpoint behind its dependencies, callers holding  *)
(*                a session, from any peer address;                        *)
(*   SpecAuth     the same endpoints with any Authorization header and any *)
(*                answer of the identity provider;                         *)
(*   SpecSign     sign_up and sign_in served concurrently, table profiles  *)
(*                as its rows under its primary key.                       *)
(*                                                                         *)
(* The storage is taken to be reachable for a handler's own transaction;   *)
(* the sweep's failure, which the code swallows, is an input.              *)
(*                                                                         *)
(* Time is the database clock NOW() in seconds, counted from midnight of   *)
(* day 0 in the session's time zone.                                       *)
(***************************************************************************)
EXTENDS Integers, Sequences, FiniteSets, TLC

VARIABLES
    now,                 \* the database clock, NOW()
    ticks,               \* how many times the clock has advanced
    attendance,          \* the committed rows of table attendance, by id
    last,                \* the response to the latest request (Spec)
    proc,                \* the requests in flight (SpecRace)
    ALLOWED_OFFICE_IPS,  \* the configured allowlist (SpecNet)
    request,             \* the headers and peer of the request (SpecNet)
    admission,           \* what require_office_network answered (SpecNet)
    metadata,            \* the role in each user's identity-provider metadata
    profiles,            \* the role in each user's row of table profiles
    profile_rows,        \* the committed rows of table profiles (SpecSign)
    leaves,              \* the committed rows of table leaves, by id
    credential           \* the Authorization header of the latest request and
                         \* what the identity provider answered to it

vars == <<now, ticks, attendance, last, proc, ALLOWED_OFFICE_IPS, request, admission,
          metadata, profiles, profile_rows, leaves, credential>>

\* ------------------------------------------------------------------ bounds

\* the clock advances at most MaxTicks times
MaxTicks == 2
\* the attendance table holds at most MaxRecords rows
MaxRecords == 2
\* an allowlist has at most MaxAllow entries
MaxAllow == 2
\* the leaves table holds at most MaxLeaves rows
MaxLeaves == 1

\* ------------------------------------------------------- program constants

\* check_out_time is nullable; NULL is the absent timestamp
NULL == -1
\* DATE_TRUNC('day', ...): a day in seconds
Day == 86400
\* INTERVAL '9 hour', the late threshold, in seconds
LateThreshold == 32400
\* INTERVAL '120 minutes', the session timeout, in seconds
SessionTimeout == 7200

Users == {"u1", "u2"}

\* the amounts the clock advances by: 1 s, 2 min, 119 min
Steps == {1, 120, SessionTimeout - 60}

\* the instants the server may start at: 08:59:59 and 23:00:00 of day 0
StartTimes == {LateThreshold - 1, Day - 3600}

\* --------------------------------------------------------------- SQL parts

DateTruncDay(t) == (t \div Day) * Day

\* SELECT NOW() > DATE_TRUNC('day', NOW()) + INTERVAL '9 hour' AS is_late
IsLateInclusive(t) == t >= DateTruncDay(t) + LateThreshold
IsLate(t) == t > DateTruncDay(t) + LateThreshold

\* status_value = "late" if is_late else "present"
StatusValue(t) == IF IsLate(t) THEN "late" ELSE "present"

\* WHERE user_id = %s AND check_in_time >= DATE_TRUNC('day', NOW())
ExistingTodayOpenOnly(r, u, t) ==
    r.user_id = u /\ r.check_in_time >= DateTruncDay(t) /\ r.check_out_time = NULL
ExistingToday(r, u, t) ==
    r.user_id = u /\ r.check_in_time >= DateTruncDay(t)

\* WHERE check_out_time IS NULL AND check_in_time < NOW() - INTERVAL '120 minutes'
\*   AND status != 'absent'
ExpiresAnyStale(r, t) ==
    r.check_in_time < t - SessionTimeout
ExpiresNonAbsentStale(r, t) ==
    r.check_in_time < t - SessionTimeout /\ r.status # "absent"
ExpiresAnyOpen(r, t) ==
    r.check_out_time = NULL /\ r.status # "absent"
ExpiresAfterTenfold(r, t) ==
    /\ r.check_out_time = NULL
    /\ r.check_in_time < t - 10 * SessionTimeout
    /\ r.status # "absent"
Expires(r, t) ==
    /\ r.check_out_time = NULL
    /\ r.check_in_time < t - SessionTimeout
    /\ r.status # "absent"

\* SET status = 'absent', check_out_time = check_in_time + INTERVAL '120 minutes'
ExpiredAtSweepTime(r, t) ==
    [r EXCEPT !.status = "absent", !.check_out_time = t]
Expired(r, t) ==
    [r EXCEPT !.status = "absent", !.check_out_time = r.check_in_time + SessionTimeout]

\* the UPDATE of auto_expire_sessions on table att at clock t
ExpireUpdate(att, t) ==
    [i \in DOMAIN att |-> IF Expires(att[i], t) THEN Expired(att[i], t) ELSE att[i]]

\* cursor.rowcount of that UPDATE
ExpireRowCount(att, t) == Cardinality({i \in DOMAIN att : Expires(att[i], t)})

\* auto_expire_sessions(): the table and the count it returns; a failure of
\* the connection or of the statement is swallowed and 0 is returned
auto_expire_sessions_NoRollback(att, t, ok) ==
    IF ok THEN [table |-> ExpireUpdate(att, t), count |-> ExpireRowCount(att, t)]
    ELSE [table |-> ExpireUpdate(att, t), count |-> 0]
auto_expire_sessions(att, t, ok) ==
    IF ok THEN [table |-> ExpireUpdate(att, t), count |-> ExpireRowCount(att, t)]
    ELSE [table |-> att, count |-> 0]

\* WHERE id = %s AND user_id = %s AND check_out_time IS NULL
CheckOutMatchesAnyOwner(att, i, rid, u) ==
    i = rid /\ att[i].check_out_time = NULL
CheckOutMatchesClosed(att, i, rid, u) ==
    i = rid /\ att[i].user_id = u
CheckOutMatches(att, i, rid, u) ==
    i = rid /\ att[i].user_id = u /\ att[i].check_out_time = NULL

\* SET check_out_time = NOW()
CheckedOut(r, t) == [r EXCEPT !.check_out_time = t]

\* attendance_id as a client may send it: the id of a row of table att, one
\* well-formed id of no row, and BadId, a string that is no UUID (PostgreSQL
\* rejects the statement)
BadId == 0
IdInputs(att) == {BadId} \cup (1 .. (Len(att) + 1))

NoResponse ==
    [op |-> "none", user |-> "-", arg |-> 0, result |-> "-", detail |-> "-",
     rec |-> 0, sweep |-> "none", expired |-> 0, read |-> {}, role |-> "-"]

\* ------------------------------------------- requests served one at a time

Procs == {"p1", "p2"}

IdleProc ==
    [pc |-> "idle", op |-> "-", user |-> "-", arg |-> 0, t |-> 0, hit |-> 0,
     swept |-> {}, waited |-> FALSE, result |-> "-", detail |-> "-"]

NoRequest ==
    [forwarded_for |-> <<>>, has_forwarded_for |-> FALSE,
     real_ip |-> <<>>, has_real_ip |-> FALSE,
     client |-> <<>>, has_client |-> FALSE]

NoAdmission == [client_ip |-> <<>>, result |-> "-"]

\* user_metadata without a "role" key
NoRole == "-"
\* no row of table profiles for the user
NoProfile == "-"

NoCredential ==
    [authorization |-> [has |-> FALSE, value |-> <<>>],
     answer |-> [user |-> "-", raised |-> FALSE, msg |-> <<>>],
     lookup |-> "none"]

\* the rows of table profiles, [id, role], for the roles prof: one row for
\* each user who has a profile (PRIMARY KEY (id))
UserOrder == <<"u1", "u2">>
TableOf(prof) ==
    LET HasRow(r) == r.role # NoProfile
    IN  SelectSeq([k \in DOMAIN UserOrder |->
                     [id |-> UserOrder[k], role |-> prof[UserOrder[k]]]], HasRow)

\* the accounts and the leaves where the specification does not involve them:
\* every user has a member's profile, as the foreign key of attendance asks
NoAccounts ==
    /\ metadata = [u \in Users |-> NoRole]
    /\ profiles = [u \in Users |-> "member"]
    /\ profile_rows = TableOf(profiles)
    /\ leaves = <<>>
    /\ credential = NoCredential

\* the state the other specifications leave alone
SessionOnly ==
    /\ proc = [p \in Procs |-> IdleProc]
    /\ ALLOWED_OFFICE_IPS = <<>>
    /\ request = NoRequest
    /\ admission = NoAdmission
    /\ NoAccounts

Init ==
    /\ now \in StartTimes
    /\ ticks = 0
    /\ attendance = <<>>
    /\ last = NoResponse
    /\ SessionOnly

\* the clock advances between requests
Tick ==
    /\ ticks < MaxTicks
    /\ \E d \in Steps : now' = now + d
    /\ ticks' = ticks + 1
    /\ last' = [NoResponse EXCEPT !.op = "tick"]
    /\ UNCHANGED <<attendance, proc, ALLOWED_OFFICE_IPS, request, admission,
                   metadata, profiles, profile_rows, leaves, credential>>

\* the rows the existence check of check_in selects (it fetches one of them)
TodayRows(att, u, t) == {att[i] : i \in {j \in DOMAIN att : ExistingToday(att[j], u, t)}}

\* SELECT ... FROM attendance WHERE user_id = %s ORDER BY check_in_time DESC
MemberRows(att, u) == {att[i] : i \in {j \in DOMAIN att : att[j].user_id = u}}

\* SELECT ... FROM attendance a JOIN profiles p ON a.user_id = p.id
\* ORDER BY a.check_in_time DESC LIMIT 10: every row has a profile (foreign
\* key) and the table is shorter than the limit
RecentRows(att) == {att[i] : i \in DOMAIN att}

\* POST /api/member/attendance/checkin, the handler's body for user u:
\* the sweep in its own transaction, then one transaction holding the
\* existence check, the late test and the insert
check_in(u, sweepOk) ==
    LET swept == auto_expire_sessions(attendance, now, sweepOk)
        att == swept.table
        existing == \E i \in DOMAIN att : ExistingToday(att[i], u, now)
        record == [user_id |-> u, check_in_time |-> now,
                   check_out_time |-> NULL, status |-> StatusValue(now)]
        resp == [NoResponse EXCEPT !.op = "check_in", !.user = u,
                                   !.sweep = IF sweepOk THEN "ok" ELSE "failed",
                                   !.expired = swept.count,
                                   !.read = TodayRows(att, u, now)]
    IN  /\ ~existing => Len(att) < MaxRecords
        /\ IF existing
           THEN /\ attendance' = att
                /\ last' = [resp EXCEPT !.result = "400",
                                        !.detail = "Already checked in today"]
           ELSE /\ attendance' = Append(att, record)
                /\ last' = [resp EXCEPT !.result = "200",
                                        !.detail = "Check-in successful",
                                        !.rec = Len(att) + 1]
        /\ UNCHANGED <<now, ticks, proc, ALLOWED_OFFICE_IPS, request, admission,
                   metadata, profiles, profile_rows, leaves, credential>>

\* POST /api/member/attendance/checkout for user u and attendance_id rid:
\* one conditional UPDATE ... RETURNING, committed when it returned a row;
\* a statement PostgreSQL rejects is answered 500
check_out(u, rid) ==
    LET hit == {i \in DOMAIN attendance : CheckOutMatches(attendance, i, rid, u)}
        resp == [NoResponse EXCEPT !.op = "check_out", !.user = u, !.arg = rid]
    IN  /\ IF rid = BadId
           THEN /\ attendance' = attendance
                /\ last' = [resp EXCEPT !.result = "500",
                                        !.detail = "Failed to check out"]
           ELSE IF hit = {}
           THEN /\ attendance' = attendance
                /\ last' = [resp EXCEPT !.result = "400",
                                        !.detail = "No open check-in found for this record"]
           ELSE /\ attendance' = [i \in DOMAIN attendance |->
                                    IF i \in hit THEN CheckedOut(attendance[i], now)
                                    ELSE attendance[i]]
                /\ last' = [resp EXCEPT !.result = "200",
                                        !.detail = "Check-out successful",
                                        !.rec = rid]
        /\ UNCHANGED <<now, ticks, proc, ALLOWED_OFFICE_IPS, request, admission,
                   metadata, profiles, profile_rows, leaves, credential>>

\* GET /api/member/attendance for user u: the sweep, then the listing
member_attendance_ReadFirst(u, sweepOk) ==
    LET swept == auto_expire_sessions(attendance, now, sweepOk)
        resp == [NoResponse EXCEPT !.op = "member_attendance", !.user = u,
                                   !.sweep = IF sweepOk THEN "ok" ELSE "failed",
                                   !.expired = swept.count,
                                   !.read = MemberRows(attendance, u)]
    IN  /\ attendance' = swept.table
        /\ last' = [resp EXCEPT !.result = "200",
                                !.detail = "Member attendance records"]
        /\ UNCHANGED <<now, ticks, proc, ALLOWED_OFFICE_IPS, request, admission,
                   metadata, profiles, profile_rows, leaves, credential>>
member_attendance(u, sweepOk) ==
    LET swept == auto_expire_sessions(attendance, now, sweepOk)
        resp == [NoResponse EXCEPT !.op = "member_attendance", !.user = u,
                                   !.sweep = IF sweepOk THEN "ok" ELSE "failed",
                                   !.expired = swept.count,
                                   !.read = MemberRows(swept.table, u)]
    IN  /\ attendance' = swept.table
        /\ last' = [resp EXCEPT !.result = "200",
                                !.detail = "Member attendance records"]
        /\ UNCHANGED <<now, ticks, proc, ALLOWED_OFFICE_IPS, request, admission,
                   metadata, profiles, profile_rows, leaves, credential>>

\* GET /api/admin/dashboard, the handler's body for an admitted admin u: the
\* sweep, then the counts and the recent rows
admin_dashboard(u, sweepOk) ==
    LET swept == auto_expire_sessions(attendance, now, sweepOk)
        resp == [NoResponse EXCEPT !.op = "admin_dashboard", !.user = u,
                                   !.sweep = IF sweepOk THEN "ok" ELSE "failed",
                                   !.expired = swept.count,
                                   !.read = RecentRows(swept.table)]
    IN  /\ attendance' = swept.table
        /\ last' = [resp EXCEPT !.result = "200",
                                !.detail = "Welcome to admin dashboard"]
        /\ UNCHANGED <<now, ticks, proc, ALLOWED_OFFICE_IPS, request, admission,
                   metadata, profiles, profile_rows, leaves, credential>>

\* GET /api/admin/users, the handler's body for an admitted admin u: one
\* SELECT on profiles
get_all_users_Sweeping(u) ==
    /\ attendance' = auto_expire_sessions(attendance, now, TRUE).table
    /\ last' = [NoResponse EXCEPT !.op = "get_all_users", !.user = u,
                                  !.result = "200",
                                  !.detail = "All employees list"]
    /\ UNCHANGED <<now, ticks, proc, ALLOWED_OFFICE_IPS, request, admission,
                   metadata, profiles, profile_rows, leaves, credential>>
get_all_users(u) ==
    /\ attendance' = attendance
    /\ last' = [NoResponse EXCEPT !.op = "get_all_users", !.user = u,
                                  !.result = "200",
                                  !.detail = "All employees list"]
    /\ UNCHANGED <<now, ticks, proc, ALLOWED_OFFICE_IPS, request, admission,
                   metadata, profiles, profile_rows, leaves, credential>>

CheckIn == \E u \in Users, sweepOk \in BOOLEAN : check_in(u, sweepOk)

CheckOut == \E u \in Users, rid \in IdInputs(attendance) : check_out(u, rid)

MemberAttendance == \E u \in Users, sweepOk \in BOOLEAN : member_attendance(u, sweepOk)

AdminDashboard == \E u \in Users, sweepOk \in BOOLEAN : admin_dashboard(u, sweepOk)

GetAllUsers == \E u \in Users : get_all_users(u)

Next ==
    \/ Tick
    \/ CheckIn
    \/ CheckOut
    \/ MemberAttendance
    \/ AdminDashboard
    \/ GetAllUsers

Spec == Init /\ [][Next]_vars

\* ------------------------------------------------ the session lifecycle

\* the ids of user u's rows whose check-in falls on day d
RecordsOfDay(att, u, d) ==
    {i \in DOMAIN att : att[i].user_id = u /\ att[i].check_in_time \div Day = d}

\* C1: with check-ins served one at a time, a check_in by a user who already
\* has a row checked in today (open, checked out or expired) is answered
\* 400 'Already checked in today', and that user has exactly one row for the
\* day before and after it.
C1_SecondCheckInRejected ==
    [][\A u \in Users :
         (/\ last'.op = "check_in"
          /\ last'.user = u
          /\ RecordsOfDay(attendance, u, now \div Day) # {})
         => /\ last'.result = "400"
            /\ last'.detail = "Already checked in today"
            /\ Cardinality(RecordsOfDay(attendance, u, now \div Day)) = 1
            /\ Cardinality(RecordsOfDay(attendance', u, now \div Day)) = 1
            /\ Len(attendance') = Len(attendance)]_vars

\* a check-in was rejected although the user's row of the day had already
\* expired to absent
C1_Witness ==
    /\ last.op = "check_in"
    /\ last.result = "400"
    /\ \E i \in RecordsOfDay(attendance, last.user, now \div Day) :
          attendance[i].status = "absent"

C3_ExpiryTiming ==
    [][last'.sweep = "ok" =>
         \A i \in DOMAIN attendance :
            (attendance[i].check_out_time = NULL /\ attendance[i].status # "absent")
            => LET T == attendance[i].check_in_time
               IN  /\ now > T + SessionTimeout =>
                         attendance'[i] =
                            [attendance[i] EXCEPT !.status = "absent",
                                                  !.check_out_time = T + 120 * 60]
                   /\ now = T + 121 * 60 =>
                         /\ attendance'[i].status = "absent"
                         /\ attendance'[i].check_out_time = T + 120 * 60
                   /\ now <= T + SessionTimeout => attendance'[i] = attendance[i]
                   /\ now = T + 119 * 60 => attendance'[i] = attendance[i]]_vars

\* one sweep met a row at T + 121 min and a row at T + 119 min
C3_Witness ==
    /\ last.sweep = "ok"
    /\ \E i, j \in DOMAIN attendance :
          /\ attendance[i].check_in_time + 121 * 60 = now
          /\ attendance[i].status = "absent"
          /\ attendance[i].check_out_time = attendance[i].check_in_time + 120 * 60
          /\ attendance[j].check_in_time + 119 * 60 = now
          /\ attendance[j].check_out_time = NULL

\* C4: a sweep that follows a sweep at the same clock value updates no row:
\* it returns 0 and every row is as the first sweep left it.
C4_SweepIdempotent ==
    [][(last.sweep = "ok" /\ last'.sweep = "ok" /\ now' = now)
       => /\ last'.expired = 0
          /\ \A i \in DOMAIN attendance : attendance'[i] = attendance[i]
          /\ ExpireUpdate(ExpireUpdate(attendance, now), now) = attendance]_vars

\* a sweep returned 0 although a row expired at this clock value is in the
\* table: the sweep before it had expired the row
C4_Witness ==
    /\ last.sweep = "ok"
    /\ last.expired = 0
    /\ \E i \in DOMAIN attendance :
          /\ attendance[i].status = "absent"
          /\ attendance[i].check_in_time + 121 * 60 = now

\* C6: check_out(recordId, userId) succeeds exactly when the row recordId
\* exists, is owned by userId and has a null check-out; otherwise it is
\* answered with an error and no row changes.
C6_CheckOutOnlyOwnOpen ==
    [][last'.op = "check_out" =>
         LET rid == last'.arg
             own == /\ rid \in DOMAIN attendance
                    /\ attendance[rid].user_id = last'.user
                    /\ attendance[rid].check_out_time = NULL
         IN  /\ last'.result = "200" <=> own
             /\ last'.result \in {"200", "400", "500"}
             /\ last'.result # "200" => attendance' = attendance
             /\ last'.result = "200" =>
                   \A i \in DOMAIN attendance : i # rid => attendance'[i] = attendance[i]]_vars

\* a check_out of another user's open row was refused
C6_Witness ==
    /\ last.op = "check_out"
    /\ last.result = "400"
    /\ last.arg \in DOMAIN attendance
    /\ attendance[last.arg].user_id # last.user
    /\ attendance[last.arg].check_out_time = NULL

\* C7: a row whose check-out is set is never changed again and no row is
\* ever deleted; every change of a row sets its check-out, so a row is
\* changed at most once after its creation.
C7_ClosedIsImmutable ==
    [][/\ Len(attendance') >= Len(attendance)
       /\ \A i \in DOMAIN attendance :
             /\ attendance[i].check_out_time # NULL => attendance'[i] = attendance[i]
             /\ attendance'[i] # attendance[i] =>
                   /\ attendance[i].check_out_time = NULL
                   /\ attendance'[i].check_out_time # NULL]_vars

\* a sweep ran over a checked-out row older than the timeout and left it
C7_Witness ==
    /\ last.sweep = "ok"
    /\ \E i \in DOMAIN attendance :
          /\ attendance[i].status # "absent"
          /\ attendance[i].check_out_time # NULL
          /\ attendance[i].check_in_time + SessionTimeout < now

\* C8: a row is 'absent' only by auto-expiry: check_in inserts 'present' or
\* 'late' with a null check-out, check_out changes no status, a status
\* changes only in a request whose sweep ran, and every 'absent' row has
\* check-out = check-in + 120 minutes.
C8_AbsentOnlyByExpiry ==
    [][/\ \A i \in DOMAIN attendance' :
             attendance'[i].status = "absent"
             => attendance'[i].check_out_time = attendance'[i].check_in_time + 120 * 60
       /\ \A i \in DOMAIN attendance' \ DOMAIN attendance :
             /\ last'.op = "check_in"
             /\ attendance'[i].status \in {"present", "late"}
             /\ attendance'[i].check_out_time = NULL
       /\ \A i \in DOMAIN attendance :
             attendance'[i].status # attendance[i].status
             => /\ last'.sweep = "ok"
                /\ attendance'[i].status = "absent"]_vars

\* a check_out was tried on a row that auto-expiry had made absent
C8_Witness ==
    /\ last.op = "check_out"
    /\ last.arg \in DOMAIN attendance
    /\ attendance[last.arg].user_id = last.user
    /\ attendance[last.arg].status = "absent"

\* ------------------------------------------------- the opportunistic sweep

\* a row that is open and whose check-in is more than 120 minutes before t
StaleOpen(r, t) == r.check_out_time = NULL /\ r.check_in_time < t - SessionTimeout

SweepingOps == {"admin_dashboard", "member_attendance", "check_in"}

\* C18: the admin dashboard, the member listing and check-in each run the
\* sweep before their own read; when the sweep succeeded, no row they read is
\* open with a check-in more than 120 minutes before the sweep's time
C18_ReadAfterSweep ==
    last.op \in SweepingOps =>
        /\ last.sweep # "none"
        /\ last.sweep = "ok" => \A r \in last.read : ~StaleOpen(r, now)

\* the dashboard's sweep expired a session and the dashboard read the row as
\* closed and absent
C18_Witness ==
    /\ last.op = "admin_dashboard"
    /\ last.sweep = "ok"
    /\ last.expired >= 1
    /\ \E r \in last.read : /\ r.status = "absent"
                            /\ r.check_out_time = r.check_in_time + SessionTimeout
                            /\ r.check_in_time < now - SessionTimeout

\* C19 as stated: after a successful call of the dashboard or of the user
\* list, every row that was open and stale before the call is closed as absent
C19_BothAdminReadsSweep ==
    [][(last'.op \in {"admin_dashboard", "get_all_users"} /\ last'.result = "200") =>
        \A i \in DOMAIN attendance :
            StaleOpen(attendance[i], now) =>
                /\ attendance'[i].status = "absent"
                /\ attendance'[i].check_out_time # NULL]_vars

\* C19: only the dashboard runs the sweep: after a successful dashboard call
\* whose sweep did not fail every row that was open and stale is closed as
\* absent, while the user list runs no sweep and leaves every row as it was
C19_OnlyDashboardSweeps ==
    [][/\ (last'.op = "admin_dashboard" /\ last'.result = "200" /\ last'.sweep = "ok") =>
            \A i \in DOMAIN attendance :
                StaleOpen(attendance[i], now) =>
                    /\ attendance'[i].status = "absent"
                    /\ attendance'[i].check_out_time =
                           attendance[i].check_in_time + SessionTimeout
       /\ last'.op = "get_all_users" =>
            /\ last'.sweep = "none"
            /\ attendance' = attendance]_vars

\* the user list was served while a session was open and stale, and the row
\* is still open
C19_Witness ==
    /\ last.op = "get_all_users"
    /\ last.result = "200"
    /\ \E i \in DOMAIN attendance : StaleOpen(attendance[i], now)

\* C20: when the sweep's storage operation fails, the sweep returns 0, no
\* row changes because of it, and the operation that invoked it still does
\* its own read or insert and is not failed
C20_SweepFailureSwallowed ==
    [][last'.sweep = "failed" =>
        /\ last'.op \in SweepingOps
        /\ last'.expired = 0
        /\ \A i \in DOMAIN attendance : attendance'[i] = attendance[i]
        /\ last'.op = "admin_dashboard" =>
              /\ last'.result = "200"
              /\ attendance' = attendance
              /\ last'.read = {attendance[i] : i \in DOMAIN attendance}
        /\ last'.op = "member_attendance" =>
              /\ last'.result = "200"
              /\ attendance' = attendance
              /\ last'.read = {attendance[i] : i \in
                                 {j \in DOMAIN attendance :
                                    attendance[j].user_id = last'.user}}
        /\ last'.op = "check_in" =>
              \/ /\ last'.result = "200"
                 /\ Len(attendance') = Len(attendance) + 1
                 /\ attendance'[Len(attendance')].user_id = last'.user
                 /\ last'.read = {}
              \/ /\ last'.result = "400"
                 /\ attendance' = attendance
                 /\ last'.read # {}]_vars

\* a check-in whose sweep failed was accepted while a stale session stayed open
C20_Witness ==
    /\ last.op = "check_in"
    /\ last.sweep = "failed"
    /\ last.result = "200"
    /\ \E i \in DOMAIN attendance : StaleOpen(attendance[i], now)

\* ------------------------------------------------- sessions left open

\* the rows of user u with a null check-out
OpenRows(att, u) ==
    {i \in DOMAIN att : att[i].user_id = u /\ att[i].check_out_time = NULL}

\* C23 as stated: every user has at most one open row at any time
C23_AtMostOneOpen ==
    \A u \in Users : Cardinality(OpenRows(attendance, u)) <= 1

\* C23: with the requests served one at a time, no two rows of a user have
\* their check-in on the same day, so a user has at most one open row per
\* day; the open rows a check_in leaves beside the new one, when its sweep
\* succeeded, were checked in on an earlier day and at most 120 minutes ago
C23_OneOpenPerDay ==
    [][/\ \A i, j \in DOMAIN attendance' :
             (i # j /\ attendance'[i].user_id = attendance'[j].user_id)
             => DateTruncDay(attendance'[i].check_in_time)
                  # DateTruncDay(attendance'[j].check_in_time)
       /\ (last'.op = "check_in" /\ last'.result = "200" /\ last'.sweep = "ok")
          => \A i \in OpenRows(attendance', last'.user) \ {last'.rec} :
                /\ attendance'[i].check_in_time >= now' - SessionTimeout
                /\ DateTruncDay(attendance'[i].check_in_time) < DateTruncDay(now')]_vars

\* a check-in after midnight, its sweep done, left the user with two open
\* rows: yesterday's, 119 minutes old, and the new one
C23_Witness ==
    /\ last.op = "check_in"
    /\ last.result = "200"
    /\ last.sweep = "ok"
    /\ Cardinality(OpenRows(attendance, last.user)) = 2

\* C24: the 120-minute timeout bounds every session: each row with a
\* check-out has check-in <= check-out <= check-in + 120 minutes, also when
\* the user checks out later than that and no sweep ran in between
C24_SessionBounded ==
    \A i \in DOMAIN attendance :
        attendance[i].check_out_time # NULL =>
            /\ attendance[i].check_in_time <= attendance[i].check_out_time
            /\ attendance[i].check_out_time
                  <= attendance[i].check_in_time + SessionTimeout

\* ------------------------------------------- check_out served concurrently

\* Each request runs in its own connection and transaction (READ COMMITTED).
\* pc: idle -> sent (the UPDATE is on its way; NOW() is the transaction's
\* start) -> blocked (the statement waits for the row lock of a concurrent
\* uncommitted UPDATE) -> updated (a row was returned and is locked, not yet
\* committed) -> done.

\* row i carries the lock of an uncommitted UPDATE of a process other than p
LockedByOtherNever(p, i) == FALSE
LockedByOther(p, i) ==
    \E q \in Procs \ {p} : \/ (proc[q].pc = "updated" /\ proc[q].hit = i)
                            \/ (proc[q].pc = "sw_updated" /\ i \in proc[q].swept)

\* the rows the UPDATE of process p matches in the committed table
CoHit(p) ==
    {i \in DOMAIN attendance : CheckOutMatches(attendance, i, proc[p].arg, proc[p].user)}

InitRace ==
    /\ now \in StartTimes
    /\ ticks = 0
    /\ attendance = <<[user_id |-> "u1", check_in_time |-> now,
                       check_out_time |-> NULL, status |-> StatusValue(now)]>>
    /\ last = NoResponse
    /\ proc = [p \in Procs |-> IdleProc]
    /\ ALLOWED_OFFICE_IPS = <<>>
    /\ request = NoRequest
    /\ admission = NoAdmission
    /\ NoAccounts

\* check_out is called for user u with attendance_id rid: cursor.execute sends
\* the UPDATE, which opens the transaction
CoSend(p) ==
    /\ proc[p].pc = "idle"
    /\ \E u \in Users, rid \in IdInputs(attendance) :
          proc' = [proc EXCEPT ![p] = [IdleProc EXCEPT !.pc = "sent", !.op = "check_out",
                                                       !.user = u, !.arg = rid,
                                                       !.t = now]]
    /\ UNCHANGED <<now, ticks, attendance, last, ALLOWED_OFFICE_IPS, request, admission,
                   metadata, profiles, profile_rows, leaves, credential>>

\* the UPDATE meets a row it matches under the lock of another transaction
CoBlock(p) ==
    /\ proc[p].pc = "sent"
    /\ proc[p].arg # BadId
    /\ \E i \in CoHit(p) : LockedByOther(p, i)
    /\ proc' = [proc EXCEPT ![p].pc = "blocked", ![p].waited = TRUE]
    /\ UNCHANGED <<now, ticks, attendance, last, ALLOWED_OFFICE_IPS, request, admission,
                   metadata, profiles, profile_rows, leaves, credential>>

\* the UPDATE ... RETURNING executes: once no other transaction locks a row
\* it matched, the condition is evaluated on the committed row
CoUpdate(p) ==
    /\ proc[p].pc \in {"sent", "blocked"}
    /\ \A i \in CoHit(p) : ~LockedByOther(p, i)
    /\ proc' = [proc EXCEPT ![p] =
                  IF proc[p].arg = BadId
                  THEN [@ EXCEPT !.pc = "done", !.result = "500",
                                 !.detail = "Failed to check out"]
                  ELSE IF CoHit(p) = {}
                  THEN [@ EXCEPT !.pc = "done", !.result = "400",
                                 !.detail = "No open check-in found for this record"]
                  ELSE [@ EXCEPT !.pc = "updated", !.hit = proc[p].arg]]
    /\ UNCHANGED <<now, ticks, attendance, last, ALLOWED_OFFICE_IPS, request, admission,
                   metadata, profiles, profile_rows, leaves, credential>>

\* conn.commit() and the 200 response with the returned row
CoCommit(p) ==
    /\ proc[p].pc = "updated"
    /\ attendance' = [attendance EXCEPT ![proc[p].hit] = CheckedOut(@, proc[p].t)]
    /\ proc' = [proc EXCEPT ![p].pc = "done", ![p].result = "200",
                            ![p].detail = "Check-out successful"]
    /\ UNCHANGED <<now, ticks, last, ALLOWED_OFFICE_IPS, request, admission,
                   metadata, profiles, profile_rows, leaves, credential>>

NextRace ==
    \/ Tick
    \/ \E p \in Procs : CoSend(p)
    \/ \E p \in Procs : CoBlock(p)
    \/ \E p \in Procs : CoUpdate(p)
    \/ \E p \in Procs : CoCommit(p)

SpecRace == InitRace /\ [][NextRace]_vars

\* C5: two check_out requests of the owner for the same open row, in any
\* interleaving: exactly one is answered 200 and the other 400 'No open
\* check-in found for this record'; the row's check-out is the successful
\* request's NOW() and, once set, is not written again.
C5_CheckOutRace ==
    [][/\ \A p, q \in Procs :
             (/\ p # q
              /\ proc'[p].pc = "done" /\ proc'[q].pc = "done"
              /\ proc'[p].user = "u1" /\ proc'[q].user = "u1"
              /\ proc'[p].arg = 1 /\ proc'[q].arg = 1)
             => \/ /\ proc'[p].result = "200"
                   /\ proc'[q].result = "400"
                   /\ proc'[q].detail = "No open check-in found for this record"
                   /\ attendance'[1].check_out_time = proc'[p].t
                \/ /\ proc'[q].result = "200"
                   /\ proc'[p].result = "400"
                   /\ proc'[p].detail = "No open check-in found for this record"
                   /\ attendance'[1].check_out_time = proc'[q].t
       /\ attendance[1].check_out_time # NULL => attendance' = attendance]_vars

\* the request that lost had waited for the winner's row lock
C5_Witness ==
    \E p, q \in Procs :
       /\ proc[p].pc = "done" /\ proc[p].result = "200"
       /\ proc[q].pc = "done" /\ proc[q].result = "400"
       /\ proc[q].waited
       /\ proc[q].user = "u1" /\ proc[q].arg = 1

\* ------------------------ check_in, check_out and the sweep, concurrently

\* SpecConc adds to the concurrent check_out the requests that run the sweep:
\* member_attendance (the sweep, then the listing) and check_in (the sweep,
\* then one transaction holding the existence check and the insert).
\* pc of a sweep: idle -> sw_sent (the UPDATE is on its way; NOW() is the
\* transaction's start) -> sw_blocked (it waits for a row lock) -> sw_updated
\* (the rows it matched are locked, not yet committed) -> sw_done (committed).
\* pc of check_in after its sweep: sw_done -> ci_checked (the existence check
\* found no row; NOW() is this transaction's start) -> done.

\* the rows the sweep of process p matches in the committed table
SwHit(p) == {i \in DOMAIN attendance : Expires(attendance[i], proc[p].t)}

\* the constraints of table attendance an INSERT of row r must meet: user_id
\* references a profile and status is one of the three values; no constraint
\* involves the rows att already holds
AttendanceConstraintsUniqueDay(att, r) ==
    /\ r.user_id \in Users
    /\ r.status \in {"present", "absent", "late"}
    /\ \A i \in DOMAIN att :
          ~(/\ att[i].user_id = r.user_id
            /\ DateTruncDay(att[i].check_in_time) = DateTruncDay(r.check_in_time))
AttendanceConstraints(att, r) ==
    /\ r.user_id \in Users
    /\ r.status \in {"present", "absent", "late"}

\* a request that starts with auto_expire_sessions() arrives; the sweep's
\* UPDATE is sent, which opens the sweep's transaction
SwSend(p) ==
    /\ proc[p].pc = "idle"
    /\ \E op \in {"member_attendance", "check_in"}, u \in Users :
          proc' = [proc EXCEPT ![p] = [IdleProc EXCEPT !.pc = "sw_sent", !.op = op,
                                                       !.user = u, !.t = now]]
    /\ UNCHANGED <<now, ticks, attendance, last, ALLOWED_OFFICE_IPS, request, admission,
                   metadata, profiles, profile_rows, leaves, credential>>

\* the sweep's UPDATE meets a row it matches under the lock of another
\* transaction
SwBlock(p) ==
    /\ proc[p].pc = "sw_sent"
    /\ \E i \in SwHit(p) : LockedByOther(p, i)
    /\ proc' = [proc EXCEPT ![p].pc = "sw_blocked", ![p].waited = TRUE]
    /\ UNCHANGED <<now, ticks, attendance, last, ALLOWED_OFFICE_IPS, request, admission,
                   metadata, profiles, profile_rows, leaves, credential>>

\* the sweep's UPDATE executes: once no other transaction locks a row it
\* matched, the condition is evaluated on the committed rows, which it locks
SwUpdate(p) ==
    /\ proc[p].pc \in {"sw_sent", "sw_blocked"}
    /\ \A i \in SwHit(p) : ~LockedByOther(p, i)
    /\ proc' = [proc EXCEPT ![p].pc = "sw_updated", ![p].swept = SwHit(p)]
    /\ UNCHANGED <<now, ticks, attendance, last, ALLOWED_OFFICE_IPS, request, admission,
                   metadata, profiles, profile_rows, leaves, credential>>

\* the sweep's conn.commit()
SwCommit(p) ==
    /\ proc[p].pc = "sw_updated"
    /\ attendance' = [i \in DOMAIN attendance |->
                        IF i \in proc[p].swept THEN Expired(attendance[i], proc[p].t)
                        ELSE attendance[i]]
    /\ proc' = [proc EXCEPT ![p].pc = "sw_done"]
    /\ UNCHANGED <<now, ticks, last, ALLOWED_OFFICE_IPS, request, admission,
                   metadata, profiles, profile_rows, leaves, credential>>

\* member_attendance after its sweep: the listing and the 200 response
MaList(p) ==
    /\ proc[p].pc = "sw_done"
    /\ proc[p].op = "member_attendance"
    /\ proc' = [proc EXCEPT ![p].pc = "done", ![p].result = "200",
                            ![p].detail = "Member attendance records"]
    /\ UNCHANGED <<now, ticks, attendance, last, ALLOWED_OFFICE_IPS, request, admission,
                   metadata, profiles, profile_rows, leaves, credential>>

\* check_in after its sweep: the existence check opens the handler's
\* transaction and reads the committed rows
CiSelect(p) ==
    /\ proc[p].pc = "sw_done"
    /\ proc[p].op = "check_in"
    /\ proc' = [proc EXCEPT ![p] =
                  IF \E i \in DOMAIN attendance :
                        ExistingToday(attendance[i], proc[p].user, now)
                  THEN [@ EXCEPT !.pc = "done", !.t = now, !.result = "400",
                                 !.detail = "Already checked in today"]
                  ELSE [@ EXCEPT !.pc = "ci_checked", !.t = now]]
    /\ UNCHANGED <<now, ticks, attendance, last, ALLOWED_OFFICE_IPS, request, admission,
                   metadata, profiles, profile_rows, leaves, credential>>

\* check_in: the late test, the INSERT with check_in_time = NOW() of the
\* handler's transaction, and conn.commit(); a row the table's constraints
\* refuse is answered 500
CiInsert(p) ==
    LET record == [user_id |-> proc[p].user, check_in_time |-> proc[p].t,
                   check_out_time |-> NULL, status |-> StatusValue(proc[p].t)]
    IN  /\ proc[p].pc = "ci_checked"
        /\ IF AttendanceConstraints(attendance, record)
           THEN /\ attendance' = Append(attendance, record)
                /\ proc' = [proc EXCEPT ![p].pc = "done", ![p].result = "200",
                                        ![p].detail = "Check-in successful",
                                        ![p].hit = Len(attendance) + 1]
           ELSE /\ attendance' = attendance
                /\ proc' = [proc EXCEPT ![p].pc = "done", ![p].result = "500",
                                        ![p].detail = "Failed to check in"]
        /\ UNCHANGED <<now, ticks, last, ALLOWED_OFFICE_IPS, request, admission,
                   metadata, profiles, profile_rows, leaves, credential>>

NextConc ==
    \/ Tick
    \/ \E p \in Procs : CoSend(p)
    \/ \E p \in Procs : CoBlock(p)
    \/ \E p \in Procs : CoUpdate(p)
    \/ \E p \in Procs : CoCommit(p)
    \/ \E p \in Procs : SwSend(p)
    \/ \E p \in Procs : SwBlock(p)
    \/ \E p \in Procs : SwUpdate(p)
    \/ \E p \in Procs : SwCommit(p)
    \/ \E p \in Procs : MaList(p)
    \/ \E p \in Procs : CiSelect(p)
    \/ \E p \in Procs : CiInsert(p)

SpecConc == InitRace /\ [][NextConc]_vars

\* process q serves a check_in of the same user on the same day as p's
C16_SameUserDay(p, q) ==
    /\ p # q
    /\ proc[p].op = "check_in" /\ proc[q].op = "check_in"
    /\ proc[q].user = proc[p].user
    /\ DateTruncDay(proc[q].t) = DateTruncDay(proc[p].t)

\* C16: when two check_in requests of one user on one day have both passed
\* the existence check before either inserted, each insert is accepted: both
\* are answered 200 and the user has two rows of that day
C16_RacingCheckInsBothSucceed ==
    [][\A p, q \in Procs :
          (/\ C16_SameUserDay(p, q)
           /\ proc[p].pc = "ci_checked"
           /\ \/ proc[q].pc = "ci_checked"
              \/ proc[q].pc = "done" /\ proc[q].result = "200"
           /\ proc'[p].pc = "done")
          => /\ proc'[p].result = "200"
             /\ attendance' = Append(attendance,
                    [user_id |-> proc[p].user, check_in_time |-> proc[p].t,
                     check_out_time |-> NULL, status |-> StatusValue(proc[p].t)])
             /\ proc[q].pc = "done" =>
                  Cardinality(RecordsOfDay(attendance', proc[p].user,
                                           proc[p].t \div Day)) >= 2]_vars

\* both racing check-ins were answered 200 and the user has two rows of the day
C16_Witness ==
    \E p, q \in Procs :
       /\ C16_SameUserDay(p, q)
       /\ proc[p].pc = "done" /\ proc[p].result = "200"
       /\ proc[q].pc = "done" /\ proc[q].result = "200"
       /\ Cardinality(RecordsOfDay(attendance, proc[p].user, proc[p].t \div Day)) >= 2

\* process p serves a check_out of row 1 by its owner
C17_ChecksOutRow1(p) ==
    proc[p].op = "check_out" /\ proc[p].user = "u1" /\ proc[p].arg = 1

\* process q has committed a sweep for which row 1 was stale
C17_SweptRow1(q) ==
    /\ proc[q].op \in {"member_attendance", "check_in"}
    /\ proc[q].pc \notin {"idle", "sw_sent", "sw_blocked", "sw_updated"}
    /\ attendance[1].check_in_time < proc[q].t - SessionTimeout

\* C17: a check_out and a sweep on the same open, stale row, in any
\* interleaving: the row is written once; it ends either with the check-out's
\* NOW() and its original status, the check_out answered 200, or with
\* check-in + 120 minutes and status absent, the check_out answered 400 'No
\* open check-in found for this record'; never a mix
C17_CheckOutVersusSweep ==
    [][/\ attendance[1].check_out_time # NULL => attendance'[1] = attendance[1]
       /\ attendance'[1].status = "absent" =>
             attendance'[1].check_out_time =
                attendance'[1].check_in_time + SessionTimeout
       /\ \A p, q \in Procs :
             (/\ p # q
              /\ C17_ChecksOutRow1(p)' /\ proc'[p].pc = "done"
              /\ C17_SweptRow1(q)')
             => \/ /\ proc'[p].result = "200"
                   /\ attendance'[1].check_out_time = proc'[p].t
                   /\ attendance'[1].status = StatusValue(attendance'[1].check_in_time)
                   /\ 1 \notin proc'[q].swept
                \/ /\ proc'[p].result = "400"
                   /\ proc'[p].detail = "No open check-in found for this record"
                   /\ attendance'[1].check_out_time =
                         attendance'[1].check_in_time + SessionTimeout
                   /\ attendance'[1].status = "absent"
                   /\ 1 \in proc'[q].swept]_vars

\* the check_out waited for the sweep's row lock and lost
C17_Witness ==
    \E p, q \in Procs :
       /\ p # q
       /\ C17_ChecksOutRow1(p) /\ proc[p].pc = "done"
       /\ proc[p].waited /\ proc[p].result = "400"
       /\ 1 \in proc[q].swept
       /\ attendance[1].status = "absent"

\* ----------------------------------------------- office-network admission

\* A string is the sequence of its characters.
S_192_168_1_50 == <<"1", "9", "2", ".", "1", "6", "8", ".", "1", ".", "5", "0">>
S_10_0_0_5 == <<"1", "0", ".", "0", ".", "0", ".", "5">>
S_192_168_1_0 == <<"1", "9", "2", ".", "1", "6", "8", ".", "1", ".", "0">>
S_unknown == <<"u", "n", "k", "n", "o", "w", "n">>
S_10_0_0_256 == <<"1", "0", ".", "0", ".", "0", ".", "2", "5", "6">>
S_chain == <<"1", "0", ".", "0", ".", "0", ".", "5", ",", " ", "1", "9", "2", ".", "1", "6", "8", ".", "1", ".", "5", "0">>
S_padded == <<" ", "1", "9", "2", ".", "1", "6", "8", ".", "1", ".", "5", "0", " ">>
S_comma == <<",">>
S_net24 == <<"1", "9", "2", ".", "1", "6", "8", ".", "1", ".", "0", "/", "2", "4">>
S_host24 == <<"1", "9", "2", ".", "1", "6", "8", ".", "1", ".", "7", "/", "2", "4">>
S_net8 == <<"1", "0", ".", "0", ".", "0", ".", "0", "/", "8">>
S_mask24 == <<"1", "9", "2", ".", "1", "6", "8", ".", "1", ".", "0", "/", "2", "5", "5", ".", "2", "5", "5", ".", "2", "5", "5", ".", "0">>
S_net33 == <<"1", "9", "2", ".", "1", "6", "8", ".", "1", ".", "0", "/", "3", "3">>
S_office == <<"o", "f", "f", "i", "c", "e">>

Has(s, c) == \E k \in DOMAIN s : s[k] = c

DigitValue(c) ==
    CASE c = "0" -> 0 [] c = "1" -> 1 [] c = "2" -> 2 [] c = "3" -> 3 [] c = "4" -> 4
      [] c = "5" -> 5 [] c = "6" -> 6 [] c = "7" -> 7 [] c = "8" -> 8 [] c = "9" -> 9
      [] OTHER -> -1

IsDigits(s) == \A k \in DOMAIN s : DigitValue(s[k]) >= 0

\* int(s) of a string of decimal digits; values above 999 are reported as
\* 1000 (the callers compare the value with 255 and with 32 only)
RECURSIVE IntOf(_)
IntOf(s) ==
    IF s = <<>> THEN 0
    ELSE LET v == 10 * IntOf(SubSeq(s, 1, Len(s) - 1)) + DigitValue(s[Len(s)])
         IN  IF v > 999 THEN 1000 ELSE v

\* str.split(sep) for a one-character separator
RECURSIVE Split(_, _)
Split(s, sep) ==
    IF ~Has(s, sep) THEN <<s>>
    ELSE LET k == CHOOSE j \in DOMAIN s : s[j] = sep /\ \A i \in 1 .. (j - 1) : s[i] # sep
         IN  <<SubSeq(s, 1, k - 1)>> \o Split(SubSeq(s, k + 1, Len(s)), sep)

\* str.strip() of blanks
RECURSIVE Strip(_)
Strip(s) ==
    IF s = <<>> THEN s
    ELSE IF s[1] = " " THEN Strip(Tail(s))
    ELSE IF s[Len(s)] = " " THEN Strip(SubSeq(s, 1, Len(s) - 1))
    ELSE s

\* what a parse that raised ValueError yields
Invalid == <<>>

\* ipaddress.IPv4Address._parse_octet: 1 to 3 ASCII digits, no leading zero,
\* at most 255; -1 when it raises
ParseOctet(o) ==
    IF o = <<>> \/ ~IsDigits(o) \/ Len(o) > 3 THEN -1
    ELSE IF Len(o) > 1 /\ o[1] = "0" THEN -1
    ELSE IF IntOf(o) > 255 THEN -1
    ELSE IntOf(o)

\* ipaddress.ip_address(s) on a string without ':' (no such string is an
\* IPv6 address): the four octets, or Invalid when ValueError is raised
ip_address(s) ==
    LET octets == Split(s, ".")
    IN  IF s = <<>> \/ Has(s, "/") \/ Len(octets) # 4 THEN Invalid
        ELSE IF \E k \in 1 .. 4 : ParseOctet(octets[k]) < 0 THEN Invalid
        ELSE [k \in 1 .. 4 |-> ParseOctet(octets[k])]

\* how many of the prefixlen leading bits fall into octet k
BitsIn(prefixlen, k) ==
    IF prefixlen - 8 * (k - 1) < 0 THEN 0
    ELSE IF prefixlen - 8 * (k - 1) > 8 THEN 8
    ELSE prefixlen - 8 * (k - 1)

\* octet o under the netmask of prefixlen bits
MaskOctet(o, prefixlen, k) ==
    LET low == 2 ^ (8 - BitsIn(prefixlen, k)) IN (o \div low) * low

\* the netmask of prefixlen bits, as octets
NetmaskOf(prefixlen) == [k \in 1 .. 4 |-> MaskOctet(255, prefixlen, k)]

\* _prefix_from_prefix_string: ASCII digits naming 0..32; -1 when it raises
PrefixFromPrefixString(m) ==
    IF m = <<>> \/ ~IsDigits(m) THEN -1
    ELSE IF IntOf(m) > 32 THEN -1
    ELSE IntOf(m)

\* _prefix_from_ip_string: a dotted netmask, else a dotted hostmask
PrefixFromIpString(m) ==
    LET a == ip_address(m)
        asNetmask == {n \in 0 .. 32 : NetmaskOf(n) = a}
        asHostmask == {n \in 0 .. 32 : NetmaskOf(n) = [k \in 1 .. 4 |-> 255 - a[k]]}
    IN  IF Has(m, "/") \/ a = Invalid THEN -1
        ELSE IF asNetmask # {} THEN CHOOSE n \in asNetmask : TRUE
        ELSE IF asHostmask # {} THEN CHOOSE n \in asHostmask : TRUE
        ELSE -1

\* _make_netmask
MakeNetmask(m) ==
    IF PrefixFromPrefixString(m) >= 0 THEN PrefixFromPrefixString(m)
    ELSE PrefixFromIpString(m)

\* ipaddress.ip_network(s, strict=False): the network address with its host
\* bits cleared and the prefix length, or Invalid when ValueError is raised
ip_network(s) ==
    LET parts == Split(s, "/")
        addr == ip_address(parts[1])
        prefixlen == IF Len(parts) = 2 THEN MakeNetmask(parts[2]) ELSE 32
    IN  IF Len(parts) > 2 \/ addr = Invalid \/ prefixlen < 0 THEN Invalid
        ELSE [network_address |-> [k \in 1 .. 4 |-> MaskOctet(addr[k], prefixlen, k)],
              prefixlen |-> prefixlen]

\* client_ip in network
InNetwork(ip, net) ==
    \A k \in 1 .. 4 : MaskOctet(ip[k], net.prefixlen, k) = net.network_address[k]

\* except ValueError: continue  -- the entry is skipped, the loop goes on
EntryErrorAborts(rest) == FALSE
EntryError(rest) == rest

\* except ValueError: return False  -- the client's string is no IP address
InvalidClientIpAllowed == TRUE
InvalidClientIp == FALSE

\* the loop over the allowlist from entry i on
RECURSIVE AllowedFrom(_, _, _)
AllowedFrom(allowlist, client_ip, i) ==
    IF i > Len(allowlist) THEN FALSE
    ELSE LET allowed == allowlist[i]
             rest == AllowedFrom(allowlist, client_ip, i + 1)
         IN  IF Has(allowed, "/")
             THEN IF ip_network(allowed) = Invalid THEN EntryError(rest)
                  ELSE IF InNetwork(client_ip, ip_network(allowed)) THEN TRUE
                  ELSE rest
             ELSE IF ip_address(allowed) = Invalid THEN EntryError(rest)
                  ELSE IF client_ip = ip_address(allowed) THEN TRUE
                  ELSE rest

\* is_office_network(ip_address) under the allowlist
is_office_network(allowlist, ip) ==
    IF allowlist = <<>> THEN TRUE
    ELSE IF ip_address(ip) = Invalid THEN InvalidClientIp
    ELSE AllowedFrom(allowlist, ip_address(ip), 1)

\* get_client_ip(request)
get_client_ip(r) ==
    IF r.has_forwarded_for /\ r.forwarded_for # <<>>
    THEN Strip(Split(r.forwarded_for, ",")[1])
    ELSE IF r.has_real_ip /\ r.real_ip # <<>> THEN Strip(r.real_ip)
    ELSE IF r.has_client THEN r.client
    ELSE S_unknown

\* require_office_network(request): the client IP, or 403
require_office_network(allowlist, r) ==
    [client_ip |-> get_client_ip(r),
     result |-> IF is_office_network(allowlist, get_client_ip(r)) THEN "admitted" ELSE "403"]

\* entries OFFICE_IP_WHITELIST may name, and the allowlists built of them
Entries == {S_net24, S_host24, S_net33, S_office, S_10_0_0_5, S_192_168_1_0}

RECURSIVE ListsUpTo(_)
ListsUpTo(n) ==
    IF n = 0 THEN {<<>>}
    ELSE ListsUpTo(n - 1) \cup
         {Append(l, e) : l \in {x \in ListsUpTo(n - 1) : Len(x) = n - 1}, e \in Entries}

\* the headers and the peer a request may carry
Optional(values) ==
    {[has |-> FALSE, value |-> <<>>]} \cup {[has |-> TRUE, value |-> v] : v \in values}

Requests ==
    {[forwarded_for |-> f.value, has_forwarded_for |-> f.has,
      real_ip |-> x.value, has_real_ip |-> x.has,
      client |-> c.value, has_client |-> c.has] :
        f \in Optional({<<>>, S_chain, S_padded, S_comma}),
        x \in Optional({S_10_0_0_256}),
        c \in Optional({S_192_168_1_50, S_10_0_0_5})}

InitNet ==
    /\ now = 0
    /\ ticks = 0
    /\ attendance = <<>>
    /\ last = NoResponse
    /\ proc = [p \in Procs |-> IdleProc]
    /\ ALLOWED_OFFICE_IPS \in ListsUpTo(MaxAllow)
    /\ request = NoRequest
    /\ admission = NoAdmission
    /\ NoAccounts

\* a request passes through the dependency require_office_network
RequireOfficeNetwork ==
    /\ \E r \in Requests :
          /\ request' = r
          /\ admission' = require_office_network(ALLOWED_OFFICE_IPS, r)
    /\ UNCHANGED <<now, ticks, attendance, last, proc, ALLOWED_OFFICE_IPS,
                   metadata, profiles, profile_rows, leaves, credential>>

NextNet == RequireOfficeNetwork

SpecNet == InitNet /\ [][NextNet]_vars

\* an allowlist entry that parses: a CIDR range when it holds '/', else an IP
C9_WellFormed(e) ==
    IF Has(e, "/") THEN ip_network(e) # Invalid ELSE ip_address(e) # Invalid

\* a well-formed entry matches the parsed address a: a range by containment,
\* a bare IP by equality
C9_Matches(e, a) ==
    IF Has(e, "/") THEN InNetwork(a, ip_network(e)) ELSE a = ip_address(e)

\* allowlist l without its entry i
C9_Without(l, i) == SubSeq(l, 1, i - 1) \o SubSeq(l, i + 1, Len(l))

\* C9: the request is admitted iff the allowlist is empty, or the client's
\* string parses as an IP and some well-formed entry matches it; dropping a
\* malformed entry from an allowlist that stays non-empty changes nothing;
\* an unparseable client string is refused under a non-empty allowlist;
\* 192.168.1.50 is admitted and 10.0.0.5 refused under ["192.168.1.0/24"].
C9_AdmissionRule ==
    admission.result # "-" =>
       LET c == admission.client_ip
           allow == ALLOWED_OFFICE_IPS
           admitted == admission.result = "admitted"
       IN  /\ admission.result \in {"admitted", "403"}
           /\ admitted = is_office_network(allow, c)
           /\ admitted <=>
                 \/ allow = <<>>
                 \/ /\ ip_address(c) # Invalid
                    /\ \E i \in DOMAIN allow :
                          C9_WellFormed(allow[i]) /\ C9_Matches(allow[i], ip_address(c))
           /\ \A i \in DOMAIN allow :
                 (~C9_WellFormed(allow[i]) /\ Len(allow) > 1)
                 => is_office_network(C9_Without(allow, i), c) = admitted
           /\ (ip_address(c) = Invalid /\ allow # <<>>) => ~admitted
           /\ (allow = <<S_net24>> /\ c = S_192_168_1_50) => admitted
           /\ (allow = <<S_net24>> /\ c = S_10_0_0_5) => ~admitted

\* 192.168.1.50 was admitted by the range that follows a malformed entry
C9_Witness ==
    /\ ALLOWED_OFFICE_IPS = <<S_net33, S_net24>>
    /\ admission.client_ip = S_192_168_1_50
    /\ admission.result = "admitted"

\* the request carries no forwarded-for header, no real-ip header and no
\* transport peer, and has been through require_office_network
C10_NoSource ==
    /\ admission.result # "-"
    /\ ~request.has_forwarded_for
    /\ ~request.has_real_ip
    /\ ~request.has_client

\* C10 as stated: such a request resolves to "unknown" and is refused under
\* every allowlist, the empty one included.
C10_UnknownAlwaysRefused ==
    C10_NoSource => (admission.client_ip = S_unknown /\ admission.result = "403")

\* C10 amended: such a request resolves to "unknown" and is refused under
\* every non-empty allowlist; under the empty allowlist it is admitted.
C10_UnknownRefusedUnlessNoAllowlist ==
    C10_NoSource =>
       /\ admission.client_ip = S_unknown
       /\ ALLOWED_OFFICE_IPS # <<>> => admission.result = "403"
       /\ ALLOWED_OFFICE_IPS = <<>> => admission.result = "admitted"

\* "unknown" was refused under a non-empty allowlist
C10_Witness ==
    /\ C10_NoSource
    /\ ALLOWED_OFFICE_IPS = <<S_net24, S_10_0_0_5>>
    /\ admission.result = "403"

\* ------------------------------------------- authentication and the roles

\* "Bearer ", the access tokens of the sessions of u1 and of u2, a string that
\* is no session's token, and two messages of the provider's exceptions
S_Bearer == <<"B", "e", "a", "r", "e", "r", " ">>
S_t1 == <<"t", "1">>
S_t2 == <<"t", "2">>
S_zz == <<"z", "z">>
S_api_key == <<"a", "p", "i", " ", "k", "e", "y">>
S_Invalid_API_key ==
    <<"I", "n", "v", "a", "l", "i", "d", " ", "A", "P", "I", " ", "k", "e", "y">>
S_invalid_JWT == <<"i", "n", "v", "a", "l", "i", "d", " ", "J", "W", "T">>

UpperCase ==
    <<"A", "B", "C", "D", "E", "F", "G", "H", "I", "J", "K", "L", "M",
      "N", "O", "P", "Q", "R", "S", "T", "U", "V", "W", "X", "Y", "Z">>
LowerCase ==
    <<"a", "b", "c", "d", "e", "f", "g", "h", "i", "j", "k", "l", "m",
      "n", "o", "p", "q", "r", "s", "t", "u", "v", "w", "x", "y", "z">>

\* str.lower()
Lower(s) ==
    [k \in DOMAIN s |->
        IF \E j \in DOMAIN UpperCase : UpperCase[j] = s[k]
        THEN LowerCase[CHOOSE j \in DOMAIN UpperCase : UpperCase[j] = s[k]]
        ELSE s[k]]

\* pat in s
Contains(s, pat) ==
    \E k \in 0 .. (Len(s) - Len(pat)) : SubSeq(s, k + 1, k + Len(pat)) = pat

\* s.replace(pat, ""): every occurrence, left to right
RECURSIVE Replace(_, _)
Replace(s, pat) ==
    IF Len(s) < Len(pat) THEN s
    ELSE IF SubSeq(s, 1, Len(pat)) = pat
    THEN Replace(SubSeq(s, Len(pat) + 1, Len(s)), pat)
    ELSE <<s[1]>> \o Replace(Tail(s), pat)

\* token = authorization.replace("Bearer ", "").strip()
Token(authorization) == Strip(Replace(authorization.value, S_Bearer))

\* the identity provider: the user whose session the access token belongs to
TokenUser(token) ==
    IF token = S_t1 THEN "u1" ELSE IF token = S_t2 THEN "u2" ELSE "-"

NoAnswer == [user |-> "-", raised |-> FALSE, msg |-> <<>>]

\* str(e) of the exceptions the provider's client raises
Messages == {S_invalid_JWT, S_Invalid_API_key}

\* "api key" in msg.lower(), for each message
ApiKeyInLower == [m \in Messages |-> Contains(Lower(m), S_api_key)]

\* what supabase.auth.get_user(token) may do: return the token's user, return
\* no user, or raise (the token is refused, the provider is unreachable, or
\* the provider refuses the server's API key)
ProviderAnswers(token) ==
    {[NoAnswer EXCEPT !.user = TokenUser(token)], NoAnswer} \cup
    {[NoAnswer EXCEPT !.raised = TRUE, !.msg = m] : m \in Messages}

\* the Authorization headers a request may carry
Authorizations ==
    Optional({<<>>, S_Bearer \o S_t1, S_Bearer \o S_t2, S_t2, S_Bearer \o S_zz})

\* no header, and the headers that carry a session's token
SessionAuthorizations == Optional({S_Bearer \o S_t1, S_Bearer \o S_t2})

\* get_current_user(authorization), given the provider's answer
get_current_user_AlwaysUnauthorized(authorization, answer) ==
    IF ~authorization.has \/ authorization.value = <<>>
    THEN [result |-> "401", detail |-> "Not authenticated", user |-> "-"]
    ELSE IF answer.raised
    THEN [result |-> "401", detail |-> "Authentication failed", user |-> "-"]
    ELSE IF answer.user = "-"
    THEN [result |-> "401", detail |-> "Invalid authentication credentials", user |-> "-"]
    ELSE [result |-> "ok", detail |-> "-", user |-> answer.user]
get_current_user(authorization, answer) ==
    IF ~authorization.has \/ authorization.value = <<>>
    THEN [result |-> "401", detail |-> "Not authenticated", user |-> "-"]
    ELSE IF answer.raised
    THEN IF ApiKeyInLower[answer.msg]
         THEN [result |-> "500", detail |-> "Server auth misconfigured", user |-> "-"]
         ELSE [result |-> "401", detail |-> "Authentication failed", user |-> "-"]
    ELSE IF answer.user = "-"
    THEN [result |-> "401", detail |-> "Invalid authentication credentials", user |-> "-"]
    ELSE [result |-> "ok", detail |-> "-", user |-> answer.user]

Roles == {"admin", "member"}

\* user_role as require_admin and get_profile compute it: the role of the
\* profile row, else of the metadata, else "member"; a lookup that raised
\* falls back to the metadata
user_role_FailClosed(prof, meta, u, lookupOk) ==
    IF ~lookupOk THEN "member"
    ELSE IF prof[u] # NoProfile THEN prof[u]
    ELSE IF meta[u] # NoRole THEN meta[u]
    ELSE "member"
user_role_MetadataFirst(prof, meta, u, lookupOk) ==
    IF meta[u] # NoRole THEN meta[u]
    ELSE IF lookupOk /\ prof[u] # NoProfile THEN prof[u]
    ELSE "member"
user_role(prof, meta, u, lookupOk) ==
    IF lookupOk /\ prof[u] # NoProfile THEN prof[u]
    ELSE IF meta[u] # NoRole THEN meta[u]
    ELSE "member"

\* require_admin's test of the resolved role
require_admin_Open(role) == "ok"
require_admin(role) == IF role # "admin" THEN "403" ELSE "ok"

\* ------------------------------------------------ the request pipeline

\* The dependencies FastAPI resolves, in the order of the handler's
\* parameters, before it calls the handler
DependenciesNetworkFirst(e) ==
    CASE e = "check_in" -> <<"require_office_network", "get_current_user">>
      [] e \in {"admin_dashboard", "get_all_users", "get_all_leaves", "approve_leave"} ->
            <<"require_admin">>
      [] OTHER -> <<"get_current_user">>
Dependencies(e) ==
    CASE e = "check_in" -> <<"get_current_user", "require_office_network">>
      [] e \in {"admin_dashboard", "get_all_users", "get_all_leaves", "approve_leave"} ->
            <<"require_admin">>
      [] OTHER -> <<"get_current_user">>

AdminEndpoints == {"admin_dashboard", "get_all_users", "get_all_leaves", "approve_leave"}

AccountEndpoints ==
    {"get_profile", "request_leave", "get_member_leaves", "get_all_leaves", "approve_leave"}

Endpoints ==
    AccountEndpoints \cup
    {"check_in", "check_out", "member_attendance", "admin_dashboard", "get_all_users"}

NoOutcome ==
    [result |-> "admitted", detail |-> "-", user |-> "-", role |-> "-",
     lookup |-> "none", admission |-> NoAdmission]

\* the dependencies deps resolved one after the other for the request c; the
\* first one that raises answers the request. require_admin depends on
\* get_current_user, whose result is computed once per request
RECURSIVE Resolve(_, _, _)
Resolve(deps, c, o) ==
    IF deps = <<>> THEN o
    ELSE
      LET auth == get_current_user(c.authorization, c.answer)
          refused == [o EXCEPT !.result = auth.result, !.detail = auth.detail]
      IN  CASE Head(deps) = "get_current_user" ->
                 IF auth.result # "ok" THEN refused
                 ELSE Resolve(Tail(deps), c, [o EXCEPT !.user = auth.user])
            [] Head(deps) = "require_admin" ->
                 IF auth.result # "ok" THEN refused
                 ELSE LET role == user_role(c.profiles, c.metadata, auth.user, c.lookupOk)
                          seen == [o EXCEPT !.user = auth.user, !.role = role,
                                            !.lookup = IF c.lookupOk THEN "ok" ELSE "failed"]
                      IN  IF require_admin(role) = "403"
                          THEN [seen EXCEPT !.result = "403",
                                            !.detail = "You don't have permission to access this resource. Admin access required."]
                          ELSE Resolve(Tail(deps), c, seen)
            [] Head(deps) = "require_office_network" ->
                 LET adm == require_office_network(c.allowlist, c.request)
                 IN  IF adm.result = "403"
                     THEN [o EXCEPT !.result = "403", !.admission = adm,
                                    !.detail = "Access denied. Check-in is only allowed from office network."]
                     ELSE Resolve(Tail(deps), c, [o EXCEPT !.admission = adm])

\* the requests of the pipeline: the peer alone names the client
GateRequests == {r \in Requests : ~r.has_forwarded_for /\ ~r.has_real_ip}

\* the provider is asked when the header is present and not empty
Answers(authorization) ==
    IF ~authorization.has \/ authorization.value = <<>> THEN {NoAnswer}
    ELSE ProviderAnswers(Token(authorization))

\* the profile store is asked for the role by require_admin: the lookup
\* succeeds or raises
Lookups(e) ==
    IF \E k \in DOMAIN Dependencies(e) : Dependencies(e)[k] = "require_admin"
    THEN BOOLEAN ELSE {TRUE}

\* a request for endpoint e arrives once the previous one is answered; its
\* dependencies are resolved and either one of them answers it or it is
\* handed to the handler (result "admitted")
Depends(e, requests, authorizations) ==
    /\ last.result # "admitted"
    /\ \E authorization \in authorizations, r \in requests :
         \E answer \in Answers(authorization), lookupOk \in Lookups(e) :
           LET o == Resolve(Dependencies(e),
                            [authorization |-> authorization, answer |-> answer,
                             lookupOk |-> lookupOk, allowlist |-> ALLOWED_OFFICE_IPS,
                             request |-> r, profiles |-> profiles,
                             metadata |-> metadata],
                            NoOutcome)
           IN  /\ credential' = [authorization |-> authorization, answer |-> answer,
                                 lookup |-> o.lookup]
               /\ request' = r
               /\ admission' = o.admission
               /\ last' = [NoResponse EXCEPT !.op = e, !.user = o.user,
                                             !.result = o.result, !.detail = o.detail,
                                             !.role = o.role]
    /\ UNCHANGED <<now, ticks, attendance, proc, ALLOWED_OFFICE_IPS,
                   metadata, profiles, profile_rows, leaves>>

\* the handler of endpoint e is called for the request the dependencies let by
Admitted(e) == last.op = e /\ last.result = "admitted"

\* --------------------------------------------- the profile and the leaves

NoNote == "-"

PendingLeave(u) ==
    [user_id |-> u, status |-> "pending", admin_note |-> NoNote, approved_by |-> "-"]

\* leave_id as a client may send it: the id of a row, one well-formed id of
\* no row, and BadId
LeaveIdInputs == {BadId} \cup (1 .. (Len(leaves) + 1))

\* WHERE id = %s of approve_leave's UPDATE
ApproveMatchesPending(lvs, i, leave_id) ==
    i = leave_id /\ lvs[i].status = "pending"
ApproveMatches(lvs, i, leave_id) ==
    i = leave_id

\* SET status = %s, admin_note = %s, approved_by = %s
Approved(l, st, note, u) ==
    [l EXCEPT !.status = st, !.admin_note = note, !.approved_by = u]

\* GET /api/profile for user u: the role lookup and the profile
get_profile(u, lookupOk) ==
    /\ Admitted("get_profile")
    /\ last' = [NoResponse EXCEPT !.op = "get_profile", !.user = u,
                                  !.result = "200", !.detail = "-",
                                  !.role = user_role(profiles, metadata, u, lookupOk)]
    /\ credential' = [credential EXCEPT !.lookup = IF lookupOk THEN "ok" ELSE "failed"]
    /\ UNCHANGED <<now, ticks, attendance, proc, ALLOWED_OFFICE_IPS, request, admission,
                   metadata, profiles, profile_rows, leaves>>

\* POST /api/member/leaves for user u: one INSERT with status 'pending'; a
\* date PostgreSQL cannot read or a user_id without a profile row (foreign
\* key) is answered 500
request_leave(u, validDates) ==
    LET resp == [NoResponse EXCEPT !.op = "request_leave", !.user = u]
    IN  /\ Admitted("request_leave")
        /\ IF ~validDates \/ profiles[u] = NoProfile
           THEN /\ leaves' = leaves
                /\ last' = [resp EXCEPT !.result = "500",
                                        !.detail = "Failed to request leave"]
           ELSE /\ Len(leaves) < MaxLeaves
                /\ leaves' = Append(leaves, PendingLeave(u))
                /\ last' = [resp EXCEPT !.result = "200",
                                        !.detail = "Leave request submitted successfully",
                                        !.rec = Len(leaves) + 1]
        /\ UNCHANGED <<now, ticks, attendance, proc, ALLOWED_OFFICE_IPS, request, admission,
                       metadata, profiles, profile_rows, credential>>

\* GET /api/member/leaves for user u: one SELECT
get_member_leaves(u) ==
    /\ Admitted("get_member_leaves")
    /\ last' = [NoResponse EXCEPT !.op = "get_member_leaves", !.user = u,
                                  !.result = "200", !.detail = "-",
                                  !.read = {leaves[i] : i \in
                                              {j \in DOMAIN leaves : leaves[j].user_id = u}}]
    /\ UNCHANGED <<now, ticks, attendance, proc, ALLOWED_OFFICE_IPS, request, admission,
                   metadata, profiles, profile_rows, leaves, credential>>

\* GET /api/admin/leaves for the admitted admin u: one SELECT, the leaves
\* joined with their owners' profiles
get_all_leaves(u) ==
    /\ Admitted("get_all_leaves")
    /\ last' = [NoResponse EXCEPT !.op = "get_all_leaves", !.user = u,
                                  !.result = "200", !.detail = "-",
                                  !.read = {leaves[i] : i \in DOMAIN leaves}]
    /\ UNCHANGED <<now, ticks, attendance, proc, ALLOWED_OFFICE_IPS, request, admission,
                   metadata, profiles, profile_rows, leaves, credential>>

\* POST /api/admin/leaves/approve for the admitted admin u: one UPDATE ...
\* RETURNING; no row is answered 404; a leave_id that is no UUID, or an
\* approver without a profile row (foreign key of approved_by), is answered 500
approve_leave(u, leave_id, st, note) ==
    LET hit == {i \in DOMAIN leaves : ApproveMatches(leaves, i, leave_id)}
        resp == [NoResponse EXCEPT !.op = "approve_leave", !.user = u,
                                   !.arg = leave_id]
    IN  /\ Admitted("approve_leave")
        /\ IF leave_id = BadId
           THEN /\ leaves' = leaves
                /\ last' = [resp EXCEPT !.result = "500",
                                        !.detail = "Failed to update leave"]
           ELSE IF hit = {}
           THEN /\ leaves' = leaves
                /\ last' = [resp EXCEPT !.result = "404",
                                        !.detail = "Leave request not found"]
           ELSE IF profiles[u] = NoProfile
           THEN /\ leaves' = leaves
                /\ last' = [resp EXCEPT !.result = "500",
                                        !.detail = "Failed to update leave"]
           ELSE /\ leaves' = [i \in DOMAIN leaves |->
                                IF i \in hit THEN Approved(leaves[i], st, note, u)
                                ELSE leaves[i]]
                /\ last' = [resp EXCEPT !.result = "200",
                                        !.detail = "Leave request " \o st,
                                        !.rec = leave_id]
        /\ UNCHANGED <<now, ticks, attendance, proc, ALLOWED_OFFICE_IPS, request, admission,
                       metadata, profiles, profile_rows, credential>>

GetProfile == \E lookupOk \in BOOLEAN : get_profile(last.user, lookupOk)

RequestLeave == \E validDates \in BOOLEAN : request_leave(last.user, validDates)

GetMemberLeaves == get_member_leaves(last.user)

GetAllLeaves == get_all_leaves(last.user)

ApproveLeave ==
    \E leave_id \in LeaveIdInputs, st \in {"approved", "rejected"}, note \in {NoNote, "note"} :
        approve_leave(last.user, leave_id, st, note)

\* the instant of the account and pipeline specifications: 23:00:00 of day 0
ApiNow == Day - 3600

\* the request of the account specification: a peer outside every allowlist
AccountRequests == {r \in GateRequests : r.has_client /\ r.client = S_10_0_0_5}

\* SpecAccounts: authentication, role resolution and the leave requests; u1
\* has every combination of profile role and metadata role, u2 has a profile
\* row of either role and no role in the metadata
InitAccounts ==
    /\ now = ApiNow
    /\ ticks = 0
    /\ attendance = <<>>
    /\ last = NoResponse
    /\ proc = [p \in Procs |-> IdleProc]
    /\ ALLOWED_OFFICE_IPS = <<S_net24>>
    /\ request = NoRequest
    /\ admission = NoAdmission
    /\ metadata \in [Users -> Roles \cup {NoRole}]
    /\ profiles \in [Users -> Roles \cup {NoProfile}]
    /\ metadata["u2"] = NoRole
    /\ profiles["u2"] # NoProfile
    /\ profile_rows = TableOf(profiles)
    /\ leaves = <<>>
    /\ credential = NoCredential

NextAccounts ==
    \/ \E e \in AccountEndpoints : Depends(e, AccountRequests, SessionAuthorizations)
    \/ GetProfile
    \/ RequestLeave
    \/ GetMemberLeaves
    \/ GetAllLeaves
    \/ ApproveLeave

SpecAccounts == InitAccounts /\ [][NextAccounts]_vars

\* ------------------------------------------ every endpoint behind its gate

\* the session handlers, called for the request the dependencies let by
ServeCheckIn ==
    /\ Admitted("check_in")
    /\ \E sweepOk \in BOOLEAN : check_in(last.user, sweepOk)

ServeCheckOut ==
    /\ Admitted("check_out")
    /\ \E rid \in IdInputs(attendance) : check_out(last.user, rid)

ServeMemberAttendance ==
    /\ Admitted("member_attendance")
    /\ \E sweepOk \in BOOLEAN : member_attendance(last.user, sweepOk)

ServeAdminDashboard ==
    /\ Admitted("admin_dashboard")
    /\ \E sweepOk \in BOOLEAN : admin_dashboard(last.user, sweepOk)

ServeGetAllUsers ==
    /\ Admitted("get_all_users")
    /\ get_all_users(last.user)

\* a session of u1 that is open and stale at ApiNow: checked in 121 minutes ago
StaleSession ==
    [user_id |-> "u1", check_in_time |-> ApiNow - SessionTimeout - 60,
     check_out_time |-> NULL, status |-> StatusValue(ApiNow - SessionTimeout - 60)]

\* request_leave and approve_leave, whose dependencies are those of
\* get_member_leaves and of get_all_leaves, are served in SpecAccounts
GateEndpoints == Endpoints \ {"request_leave", "approve_leave"}

\* SpecGate: the endpoints behind their dependencies; the office is the
\* network 192.168.1.0/24, u1 is an admin and u2 a member
InitGate ==
    /\ now = ApiNow
    /\ ticks = 0
    /\ attendance = <<StaleSession>>
    /\ last = NoResponse
    /\ proc = [p \in Procs |-> IdleProc]
    /\ ALLOWED_OFFICE_IPS = <<S_net24>>
    /\ request = NoRequest
    /\ admission = NoAdmission
    /\ metadata = [u \in Users |-> NoRole]
    /\ profiles = [u \in Users |-> IF u = "u1" THEN "admin" ELSE "member"]
    /\ profile_rows = TableOf(profiles)
    /\ leaves = <<>>
    /\ credential = NoCredential

NextGate ==
    \/ \E e \in GateEndpoints : Depends(e, GateRequests, SessionAuthorizations)
    \/ ServeCheckIn
    \/ ServeCheckOut
    \/ ServeMemberAttendance
    \/ ServeAdminDashboard
    \/ ServeGetAllUsers
    \/ GetProfile
    \/ GetMemberLeaves
    \/ GetAllLeaves

SpecGate == InitGate /\ [][NextGate]_vars

\* the request of the authentication specification: a peer inside the office
AuthRequests == {r \in GateRequests : r.has_client /\ r.client = S_192_168_1_50}

\* SpecAuth: the endpoints of SpecGate, called from the office with every
\* Authorization header
NextAuth ==
    \/ \E e \in GateEndpoints : Depends(e, AuthRequests, Authorizations)
    \/ ServeCheckIn
    \/ ServeCheckOut
    \/ ServeMemberAttendance
    \/ ServeAdminDashboard
    \/ ServeGetAllUsers
    \/ GetProfile
    \/ GetMemberLeaves
    \/ GetAllLeaves

SpecAuth == InitGate /\ [][NextAuth]_vars

\* ------------------------------------------------- the authorization gate

\* the request carried a credential and the provider returned its user
Validated(cr) ==
    /\ cr.authorization.has
    /\ cr.authorization.value # <<>>
    /\ ~cr.answer.raised
    /\ cr.answer.user # "-"

\* the role the claims expect for the caller of credential cr whose role was
\* looked up: the profile row's when the lookup returned a row, else the
\* metadata's, else "member"
ExpectedRole(cr, prof, meta) ==
    LET u == cr.answer.user
    IN  IF cr.lookup = "ok" /\ prof[u] # NoProfile THEN prof[u]
        ELSE IF meta[u] # NoRole THEN meta[u]
        ELSE "member"

\* C12 as stated: the resolved role is the profile row's whenever a row
\* exists, else the metadata's, else 'member'
C12_ProfileRoleAlwaysWins ==
    last.role # "-" =>
        last.role = IF profiles[last.user] # NoProfile THEN profiles[last.user]
                    ELSE IF metadata[last.user] # NoRole THEN metadata[last.user]
                    ELSE "member"

\* C12: require_admin and get_profile resolve the role of an authenticated
\* user to the profile row's role whenever the lookup returned a row, even
\* when the metadata names another role; with no row, or when the lookup
\* raised, to the metadata role, and to 'member' when the metadata has none
C12_ProfileRoleWinsWhenLookedUp ==
    /\ last.role # "-" =>
          /\ credential.lookup \in {"ok", "failed"}
          /\ last.user = credential.answer.user
          /\ last.role = ExpectedRole(credential, profiles, metadata)
    /\ (last.op \in AdminEndpoints /\ Validated(credential)
            /\ last.result \in {"admitted", "403"}) => last.role # "-"
    /\ (last.op = "get_profile" /\ last.result = "200") => last.role # "-"

\* get_profile answered the profile row's role, member, to a user whose
\* metadata says admin
C12_Witness ==
    /\ last.op = "get_profile"
    /\ last.result = "200"
    /\ profiles[last.user] = "member"
    /\ metadata[last.user] = "admin"
    /\ last.role = "member"

\* C13: require_admin answers 403 to every authenticated caller whose
\* resolved role is not 'admin', and such a call of an admin-only operation
\* changes no stored state; leaves change by approve_leave only for an admin
C13_NonAdminRejected ==
    [][/\ (/\ last'.op \in AdminEndpoints
           /\ Validated(credential')
           /\ ExpectedRole(credential', profiles', metadata') # "admin")
          => /\ last'.result = "403"
             /\ last'.detail =
                  "You don't have permission to access this resource. Admin access required."
             /\ UNCHANGED <<leaves, attendance, profiles, metadata>>
       /\ (last'.op = "approve_leave" /\ leaves' # leaves)
          => /\ Admitted("approve_leave")
             /\ last.role = "admin"]_vars

\* a member's approve_leave was refused while a leave was pending
C13_Witness ==
    /\ last.op = "approve_leave"
    /\ last.result = "403"
    /\ last.role = "member"
    /\ \E i \in DOMAIN leaves : leaves[i].status = "pending"

\* C14 as stated: every request whose credential is absent or not validated
\* is answered 401, 'Not authenticated' when no credential is present
C14_UnauthorizedWhenNotValidated ==
    (last.op \in Endpoints /\ ~Validated(credential)) =>
        /\ last.result = "401"
        /\ ~credential.authorization.has => last.detail = "Not authenticated"

\* C14: a request whose credential is absent or not validated is answered by
\* get_current_user and changes nothing: 401 'Not authenticated' without a
\* credential, 401 'Invalid authentication credentials' when the provider
\* returns no user, 401 'Authentication failed' when the provider's call
\* raises, except 500 when the raised message names the API key
C14_RefusedWhenNotValidated ==
    [][(last'.op \in Endpoints /\ ~Validated(credential')) =>
        /\ UNCHANGED <<attendance, leaves, profiles, metadata>>
        /\ last'.user = "-"
        /\ IF ~credential'.authorization.has \/ credential'.authorization.value = <<>>
           THEN last'.result = "401" /\ last'.detail = "Not authenticated"
           ELSE IF credential'.answer.raised /\ credential'.answer.msg = S_Invalid_API_key
           THEN last'.result = "500" /\ last'.detail = "Server auth misconfigured"
           ELSE IF credential'.answer.raised
           THEN last'.result = "401" /\ last'.detail = "Authentication failed"
           ELSE last'.result = "401"
                /\ last'.detail = "Invalid authentication credentials"]_vars

\* the provider refused the server's API key and the request was answered 500
C14_Witness ==
    /\ last.op \in Endpoints
    /\ credential.answer.raised
    /\ credential.answer.msg = S_Invalid_API_key
    /\ last.result = "500"

\* C15: a leave's row changes only from status 'pending', to 'approved' or
\* 'rejected', by an admitted administrator who is recorded as approver, and
\* a leave that has left 'pending' is not changed again
C15_LeaveChangesOnlyFromPending ==
    [][\A i \in DOMAIN leaves :
          leaves'[i] # leaves[i] =>
             /\ leaves[i].status = "pending"
             /\ leaves'[i].status \in {"approved", "rejected"}
             /\ leaves'[i].approved_by = last'.user
             /\ last.role = "admin"]_vars

\* -------------------------------------------------- the gate of check-in

\* the request comes from the office 192.168.1.0/24 of InitGate
C11_FromOffice(r) == r.has_client /\ r.client = S_192_168_1_50

\* C11: a check-in passes authentication, then the office-network
\* admission, then the session engine: without a validated credential it is
\* answered by get_current_user and the admission filter is not consulted;
\* with one, from an IP that fails admission, it is answered 403, inserts no
\* row and runs no sweep; the session engine runs only for an admitted
\* request. No other endpoint depends on the admission filter or is answered
\* its 403
C11_CheckInGateOrder ==
    [][/\ \A e \in Endpoints \ {"check_in"} :
             \A k \in DOMAIN Dependencies(e) :
                 Dependencies(e)[k] # "require_office_network"
       /\ (last'.op = "check_in" /\ ~Validated(credential'))
          => /\ last'.result \in {"401", "500"}
             /\ admission' = NoAdmission
             /\ attendance' = attendance
       /\ (last'.op = "check_in" /\ Validated(credential') /\ ~C11_FromOffice(request'))
          => /\ last'.result = "403"
             /\ last'.detail =
                  "Access denied. Check-in is only allowed from office network."
             /\ last'.sweep = "none"
             /\ attendance' = attendance
       /\ (last'.op = "check_in" /\ last'.sweep # "none")
          => /\ Validated(credential')
             /\ C11_FromOffice(request')
             /\ admission'.result = "admitted"
             /\ Admitted("check_in")
       /\ (last'.op \in Endpoints \ {"check_in"})
          => /\ admission' = NoAdmission
             /\ last'.detail #
                  "Access denied. Check-in is only allowed from office network."
             /\ last'.result = "403" =>
                  (last'.op \in AdminEndpoints /\ last'.role = "member")]_vars

\* an authenticated check-in from outside the office was answered 403 and the
\* stale session is still open: no sweep ran
C11_Witness ==
    /\ last.op = "check_in"
    /\ last.result = "403"
    /\ Validated(credential)
    /\ admission.result = "403"
    /\ \E i \in DOMAIN attendance : StaleOpen(attendance[i], now)

\* ------------------------------------------- the role lookup that fails

\* the role of the identity provider's metadata for user u, 'member' when
\* the metadata has none
MetadataRole(meta, u) == IF meta[u] # NoRole THEN meta[u] ELSE "member"

\* C21: when the role lookup raises, in require_admin or in get_profile, the
\* request is not failed for it: the role is the metadata's, 'member' by
\* default; require_admin then admits the caller whose metadata role is
\* admin, whatever the profile row says, and refuses every other with 403;
\* get_profile answers 200 with that role
C21_LookupFailureFallsBack ==
    [][/\ (/\ last.result # "admitted"
           /\ last'.op \in AdminEndpoints
           /\ Validated(credential')
           /\ credential'.lookup = "failed")
          => /\ last'.user = credential'.answer.user
             /\ last'.role = MetadataRole(metadata, last'.user)
             /\ last'.result = IF MetadataRole(metadata, last'.user) = "admin"
                               THEN "admitted" ELSE "403"
       /\ (/\ Admitted("get_profile")
           /\ last'.op = "get_profile"
           /\ last'.result # "admitted"
           /\ credential'.lookup = "failed")
          => /\ last'.result = "200"
             /\ last'.user = last.user
             /\ last'.role = MetadataRole(metadata, last.user)]_vars

\* require_admin admitted, after a lookup that raised, a caller whose profile
\* row says member and whose metadata says admin
C21_Witness ==
    /\ last.op \in AdminEndpoints
    /\ last.result = "admitted"
    /\ credential.lookup = "failed"
    /\ profiles[last.user] = "member"
    /\ metadata[last.user] = "admin"
    /\ last.role = "admin"

\* ------------------------------------------------- the leave's approval

\* the step is approve_leave's answer to an admitted request
C22_Answered == Admitted("approve_leave") /\ last' # last

\* C22 as stated: an admitted approve_leave on a leave that exists, pending
\* or not, succeeds and records the caller as approver
C22_KnownLeaveAlwaysUpdated ==
    [][(C22_Answered /\ last'.arg \in DOMAIN leaves) =>
          /\ last'.result = "200"
          /\ leaves'[last'.arg].status \in {"approved", "rejected"}
          /\ leaves'[last'.arg].approved_by = last.user]_vars

\* C22: approve_leave by an admitted admin who has a profile row, on a leave
\* that exists, pending or not, is answered 200 and overwrites status, note
\* and approver of that leave alone; by an admitted admin without a profile
\* row it is answered 500 and changes nothing; with the id of no leave it is
\* answered 404 'Leave request not found' and changes nothing
C22_ApprovalOverwrites ==
    [][C22_Answered =>
          /\ last'.op = "approve_leave"
          /\ last'.user = last.user
          /\ \A i \in DOMAIN leaves : i # last'.arg => leaves'[i] = leaves[i]
          /\ DOMAIN leaves' = DOMAIN leaves
          /\ IF last'.arg \in DOMAIN leaves /\ profiles[last.user] # NoProfile
             THEN /\ last'.result = "200"
                  /\ leaves'[last'.arg].status \in {"approved", "rejected"}
                  /\ last'.detail = "Leave request " \o leaves'[last'.arg].status
                  /\ leaves'[last'.arg].approved_by = last.user
                  /\ leaves'[last'.arg].admin_note \in {NoNote, "note"}
                  /\ leaves'[last'.arg].user_id = leaves[last'.arg].user_id
             ELSE /\ leaves' = leaves
                  /\ IF last'.arg \in DOMAIN leaves \/ last'.arg = BadId
                     THEN /\ last'.result = "500"
                          /\ last'.detail = "Failed to update leave"
                     ELSE /\ last'.result = "404"
                          /\ last'.detail = "Leave request not found"]_vars

\* an admin rejected, with a note, the leave of another user
C22_Witness ==
    /\ last.op = "approve_leave"
    /\ last.result = "200"
    /\ last.arg \in DOMAIN leaves
    /\ leaves[last.arg].status = "rejected"
    /\ leaves[last.arg].admin_note = "note"
    /\ leaves[last.arg].approved_by = last.user
    /\ leaves[last.arg].user_id # last.user

\* --------------------------------------------------- sign-up and sign-in

\* Table profiles as its committed rows [id, role]. Every user of Users has
\* an account at the identity provider and an email of their own, so that
\* UNIQUE (email) follows PRIMARY KEY (id). Each request runs in its own
\* connection and transaction (READ COMMITTED); its position is proc[p].pc,
\* its answer proc[p].result, and proc[p].detail is the role in the answer.

\* the rows with id u
RowsOf(rows, u) ==
    LET IsOf(r) == r.id = u
    IN  SelectSeq(rows, IsOf)

\* SELECT role, full_name FROM profiles WHERE id = %s; cursor.fetchone()
FetchRole(rows, u) ==
    IF RowsOf(rows, u) = <<>> THEN NoProfile ELSE Head(RowsOf(rows, u)).role

\* the role in each user's row, as the role lookups read it
RoleById(rows) == [u \in Users |-> FetchRole(rows, u)]

\* the row sign_in inserts for a user without one: VALUES (id, email,
\* full_name, "member")
LazyProfileFromMetadata(u, meta) ==
    [id |-> u, role |-> IF meta[u] # NoRole THEN meta[u] ELSE "member"]
LazyProfile(u, meta) == [id |-> u, role |-> "member"]

\* PRIMARY KEY (id) and CHECK (role IN ('admin', 'member')) of table
\* profiles, for the INSERT of row r
ProfilesConstraintsNoKey(rows, r) == r.role \in Roles
ProfilesConstraints(rows, r) ==
    /\ r.role \in Roles
    /\ \A k \in DOMAIN rows : rows[k].id # r.id

\* ON CONFLICT (id) DO UPDATE SET role = EXCLUDED.role: the table after the
\* upsert of row r
Upserted(rows, r) ==
    IF RowsOf(rows, r.id) = <<>> THEN Append(rows, r)
    ELSE [k \in DOMAIN rows |-> IF rows[k].id = r.id
                                THEN [rows[k] EXCEPT !.role = r.role]
                                ELSE rows[k]]

\* another transaction holds an uncommitted row with id u: an INSERT of that
\* id waits for it
KeyLockedByOther(p, u) ==
    \E q \in Procs \ {p} :
        /\ proc[q].pc \in {"si_inserted", "su_upserted"}
        /\ proc[q].user = u

\* the answers of supabase.auth.sign_in_with_password: a user with a session,
\* no user, or an exception
SignInAnswers == {"ok", "none", "email not confirmed", "invalid login credentials"}

\* the answers of supabase.auth.sign_up: a user, no user, or an exception
SignUpAnswers == {"ok", "none", "already registered", "raised"}

Answered(p, op, u, result, role) ==
    [proc[p] EXCEPT !.pc = "done", !.op = op, !.user = u,
                    !.result = result, !.detail = role]

SignUnchanged ==
    UNCHANGED <<now, ticks, attendance, last, ALLOWED_OFFICE_IPS, request, admission,
                leaves, credential>>

\* POST /auth/signin: the identity provider is asked first
SiSend(p) ==
    /\ proc[p].pc \in {"idle", "done"}
    /\ \E u \in Users, answer \in SignInAnswers :
         proc' = [proc EXCEPT ![p] =
            CASE answer = "ok" ->
                   [IdleProc EXCEPT !.pc = "si_signed", !.op = "sign_in", !.user = u]
              [] answer = "email not confirmed" ->
                   [IdleProc EXCEPT !.pc = "done", !.op = "sign_in", !.result = "403"]
              [] OTHER ->
                   [IdleProc EXCEPT !.pc = "done", !.op = "sign_in", !.result = "401"]]
    /\ UNCHANGED <<metadata, profiles, profile_rows>>
    /\ SignUnchanged

\* sign_in: the role lookup; a row answers the request with its role, a
\* database error answers it with role 'member'
SiSelect(p) ==
    /\ proc[p].pc = "si_signed"
    /\ \E dbOk \in BOOLEAN :
         LET u == proc[p].user
             role == FetchRole(profile_rows, u)
         IN  proc' = [proc EXCEPT ![p] =
                IF ~dbOk THEN Answered(p, "sign_in", u, "200", "member")
                ELSE IF role # NoProfile THEN Answered(p, "sign_in", u, "200", role)
                ELSE [proc[p] EXCEPT !.pc = "si_selected"]]
    /\ UNCHANGED <<metadata, profiles, profile_rows>>
    /\ SignUnchanged

\* sign_in: the INSERT waits for the transaction that holds a row of its id
SiBlock(p) ==
    /\ proc[p].pc = "si_selected"
    /\ ~proc[p].waited
    /\ KeyLockedByOther(p, proc[p].user)
    /\ proc' = [proc EXCEPT ![p].waited = TRUE]
    /\ UNCHANGED <<metadata, profiles, profile_rows>>
    /\ SignUnchanged

\* sign_in: the INSERT of the missing profile; a key that exists raises, and
\* the exception answers the request with role 'member'
SiInsert(p) ==
    /\ proc[p].pc = "si_selected"
    /\ ~KeyLockedByOther(p, proc[p].user)
    /\ proc' = [proc EXCEPT ![p] =
          IF ProfilesConstraints(profile_rows, LazyProfile(proc[p].user, metadata))
          THEN [proc[p] EXCEPT !.pc = "si_inserted"]
          ELSE Answered(p, "sign_in", proc[p].user, "200", "member")]
    /\ UNCHANGED <<metadata, profiles, profile_rows>>
    /\ SignUnchanged

\* sign_in: conn.commit() and the answer, user_role = "member"
SiCommit(p) ==
    /\ proc[p].pc = "si_inserted"
    /\ profile_rows' = Append(profile_rows, LazyProfile(proc[p].user, metadata))
    /\ profiles' = RoleById(profile_rows')
    /\ proc' = [proc EXCEPT ![p] =
          [Answered(p, "sign_in", proc[p].user, "200", "member") EXCEPT !.hit = 1]]
    /\ UNCHANGED metadata
    /\ SignUnchanged

\* POST /auth/signup with role: the identity provider is asked first; it
\* answers a user, whose metadata it sets when it registers the account
SuSend(p) ==
    /\ proc[p].pc \in {"idle", "done"}
    /\ \E u \in Users, role \in Roles, answer \in SignUpAnswers, registers \in BOOLEAN :
         /\ (answer # "ok") => ~registers
         /\ metadata' = IF registers THEN [metadata EXCEPT ![u] = role] ELSE metadata
         /\ proc' = [proc EXCEPT ![p] =
              CASE answer = "ok" ->
                     [IdleProc EXCEPT !.pc = "su_signed", !.op = "sign_up", !.user = u,
                                      !.detail = role]
                [] answer = "already registered" ->
                     [IdleProc EXCEPT !.pc = "done", !.op = "sign_up", !.result = "409"]
                [] OTHER ->
                     [IdleProc EXCEPT !.pc = "done", !.op = "sign_up", !.result = "400"]]
    /\ UNCHANGED <<profiles, profile_rows>>
    /\ SignUnchanged

\* sign_up: the upsert waits for the transaction that holds a row of its id
SuBlock(p) ==
    /\ proc[p].pc = "su_signed"
    /\ ~proc[p].waited
    /\ KeyLockedByOther(p, proc[p].user)
    /\ proc' = [proc EXCEPT ![p].waited = TRUE]
    /\ UNCHANGED <<metadata, profiles, profile_rows>>
    /\ SignUnchanged

\* sign_up: INSERT ... ON CONFLICT (id) DO UPDATE; a database error is
\* swallowed and the request answered 201 all the same
SuUpsert(p) ==
    /\ proc[p].pc = "su_signed"
    /\ \E dbOk \in BOOLEAN :
         /\ dbOk => ~KeyLockedByOther(p, proc[p].user)
         /\ proc' = [proc EXCEPT ![p] =
              IF dbOk THEN [proc[p] EXCEPT !.pc = "su_upserted"]
              ELSE Answered(p, "sign_up", proc[p].user, "201", proc[p].detail)]
    /\ UNCHANGED <<metadata, profiles, profile_rows>>
    /\ SignUnchanged

\* sign_up: conn.commit() and the answer
SuCommit(p) ==
    /\ proc[p].pc = "su_upserted"
    /\ profile_rows' = Upserted(profile_rows, [id |-> proc[p].user, role |-> proc[p].detail])
    /\ profiles' = RoleById(profile_rows')
    /\ proc' = [proc EXCEPT ![p] =
          [Answered(p, "sign_up", proc[p].user, "201", proc[p].detail) EXCEPT !.hit = 1]]
    /\ UNCHANGED metadata
    /\ SignUnchanged

\* SpecSign: sign_up and sign_in served concurrently; the accounts exist at
\* the identity provider, with any role or none in their metadata, and table
\* profiles is empty
InitSign ==
    /\ now = ApiNow
    /\ ticks = 0
    /\ attendance = <<>>
    /\ last = NoResponse
    /\ proc = [p \in Procs |-> IdleProc]
    /\ ALLOWED_OFFICE_IPS = <<S_net24>>
    /\ request = NoRequest
    /\ admission = NoAdmission
    /\ metadata \in [Users -> Roles \cup {NoRole}]
    /\ profile_rows = <<>>
    /\ profiles = RoleById(profile_rows)
    /\ leaves = <<>>
    /\ credential = NoCredential

NextSign ==
    \/ \E p \in Procs : SiSend(p)
    \/ \E p \in Procs : SiSelect(p)
    \/ \E p \in Procs : SiBlock(p)
    \/ \E p \in Procs : SiInsert(p)
    \/ \E p \in Procs : SiCommit(p)
    \/ \E p \in Procs : SuSend(p)
    \/ \E p \in Procs : SuBlock(p)
    \/ \E p \in Procs : SuUpsert(p)
    \/ \E p \in Procs : SuCommit(p)

SpecSign == InitSign /\ [][NextSign]_vars

\* ------------------------------------------- the profile made at sign-in

\* process p's sign_in is answered 200 in this step
C25_SignInAnswered(p) ==
    /\ proc[p].pc # "done"
    /\ proc'[p].pc = "done"
    /\ proc'[p].op = "sign_in"
    /\ proc'[p].result = "200"

\* C25 as stated: for a user without a profile row, the role require_admin
\* resolves right after a successful sign_in is the one it resolved right
\* before
C25_SignInKeepsRole ==
    [][\A p \in Procs :
          (C25_SignInAnswered(p) /\ profiles[proc'[p].user] = NoProfile)
          => user_role(profiles', metadata', proc'[p].user, TRUE)
               = user_role(profiles, metadata, proc'[p].user, TRUE)]_vars

\* C25: sign_in gives a user without a profile row a row of role 'member',
\* whatever the metadata: from then on require_admin, its lookup succeeding,
\* resolves 'member' and refuses the user, so that the role is the one
\* resolved before exactly when the metadata role is not admin; a lookup that
\* raises still resolves the metadata role. A sign_in that creates no row
\* (database error, insert refused) changes no role. The answer names the
\* role 'member' in each case
C25_LazyProfileIsMember ==
    [][\A p \in Procs :
          (C25_SignInAnswered(p) /\ profiles[proc'[p].user] = NoProfile)
          => LET u == proc'[p].user
             IN  /\ proc'[p].detail = "member"
                 /\ metadata' = metadata
                 /\ IF profile_rows' # profile_rows
                    THEN /\ profiles' = [profiles EXCEPT ![u] = "member"]
                         /\ user_role(profiles', metadata', u, TRUE) = "member"
                         /\ require_admin(user_role(profiles', metadata', u, TRUE)) = "403"
                         /\ (user_role(profiles', metadata', u, TRUE)
                               = user_role(profiles, metadata, u, TRUE))
                            <=> (MetadataRole(metadata, u) # "admin")
                         /\ user_role(profiles', metadata', u, FALSE)
                              = MetadataRole(metadata, u)
                    ELSE profiles' = profiles]_vars

\* a user whose metadata says admin signed in, got the row the sign_in made,
\* and is refused by require_admin
C25_Witness ==
    \E p \in Procs :
       /\ proc[p].pc = "done" /\ proc[p].op = "sign_in"
       /\ proc[p].result = "200" /\ proc[p].hit = 1
       /\ metadata[proc[p].user] = "admin"
       /\ profiles[proc[p].user] = "member"
       /\ require_admin(user_role(profiles, metadata, proc[p].user, TRUE)) = "403"

\* ------------------------------------------------- one profile per user

=============================================================================
